---- MODULE Spec2Model ----
(***************************************************************************)
(* Model of the HaxBall-clone game server: GameServer (socket handlers,    *)
(* room registry), GameRoom (roster, team counters, tick scheduler) and    *)
(* Player.  Objects live in heaps (heap: Player objects, gameRooms:        *)
(* GameRoom objects) so that aliasing between the server's maps and the    *)
(* rooms' maps is part of the state.  Lengths and speeds are fixed-point   *)
(* integers, Scale units per field unit.  The page in the browser (Game,   *)
(* NetworkManager, OfflineNetworkManager) is the variable client.          *)
(***************************************************************************)
EXTENDS Integers, Sequences, FiniteSets, TLC

\* ------------------------------------------------------------- bounds
NSockets == 2      \* sockets that may connect to the server
NPlayers == 11     \* Player objects at hand for a room on its own
NCodes   == 2      \* room codes the random generator may produce
MaxObjs  == 2      \* Player objects alive at once per socket id
MaxMisuse == 1     \* requests a well-behaved client would not send
MaxInputs == 1     \* playerInput events that reach a room
MaxNow   == 17     \* the wall clock stops advancing here (ms)
MaxCalls == 1      \* roster calls on a room on its own, beyond adding the next player
MaxNowLoop == 68   \* the wall clock of a room's scheduler on its own stops here (ms)
NCrowd   == 5      \* sockets of the crowded lobby
MaxSquad == 2      \* players of a match
MaxTicks == 165    \* ticks of a match
KickTicks == 11    \* ticks' worth of game time after which a kicked ball is left alone
MaxLate == 1       \* ms by which a timer may fire late
MaxSockets == 7    \* WebSockets a page makes

\* -------------------------------------------------- program constants
MaxPlayersDefault == 10    \* GameRoom.maxPlayers
MaxTeamSize       == 4     \* GameRoom.maxTeamSize
CodeLen           == 6     \* generateRoomCode: characters per code
CharsLength       == 36    \* generateRoomCode: chars.length, A-Z and 0-9
MaxReconnectAttempts == 5  \* NetworkManager.maxReconnectAttempts
TickMs            == 17    \* tickInterval = 1000/60 ms, in whole ms of Date.now()
Scale             == 1000  \* fixed-point units per field unit

Sockets == 1..NSockets

NoObj  == <<0, 0>>
NoCode == <<>>
NoTimer == <<0, 0>>

\* A room code: CodeLen indices into the generator's alphabet.
Code(k) == [i \in 1..CodeLen |-> IF i = CodeLen THEN k ELSE 0]
Codes   == {Code(k) : k \in 0..(NCodes - 1)}
CodeIndex(c) == c[CodeLen] + 1
\* GameRoom objects: the room created under the k-th code lives in slot k, or
\* in slot NCodes + k while an earlier room of that code is still alive.
NewSlot(code, gr) ==
    IF CodeIndex(code) \notin DOMAIN gr THEN CodeIndex(code) ELSE NCodes + CodeIndex(code)

\* values a switchTeam request may carry in data.team
Targets == {"red", "blue", "spectator", "null", "bogus"}

\* Player.input.  isObject is FALSE for what a playerInput event may carry
\* instead of an object with flags: null, a number, a string.
NoInput == [isObject |-> TRUE, up |-> FALSE, down |-> FALSE, left |-> FALSE, right |-> FALSE]
RightInput == [NoInput EXCEPT !.right = TRUE]
Malformed == [NoInput EXCEPT !.isObject = FALSE]
\* payloads of a playerInput event
InputData == {NoInput, RightInput, Malformed}

VARIABLES
    sock,       \* socket -> "new" | "open" | "closed"
    listening,  \* FALSE once GameServer.shutdown ran
    players,    \* GameServer.players: socket id -> Player object
    rooms,      \* GameServer.rooms: code -> GameRoom object (slot)
    gameRooms,  \* heap of GameRoom objects: slot -> fields
    heap,       \* heap of Player objects: object id -> fields
    timers,     \* active setInterval timers: [id, room, due]
    now,        \* Date.now()
    misuse,     \* environment: requests handled that a well-behaved client would not send
    nInputs,    \* environment: playerInput events that reached a room
    calls,      \* environment: roster calls made on a room on its own
    ret,        \* last roster or scheduler call made on a room on its own, and what it returned
    emitted,    \* the tap on the socket layer: whether it is on, and the
                \* 'gameState' messages of the last step it caught
    client      \* the page in a browser: its Game, its NetworkManager, the
                \* WebSockets and the timeouts it has made

serverVars == <<sock, listening, players, rooms, gameRooms, heap, timers, now, misuse, nInputs, calls, ret, emitted>>
vars == <<sock, listening, players, rooms, gameRooms, heap, timers, now, misuse, nInputs, calls, ret, emitted, client>>

\* F(v), with v computed once and bound to F's parameter: the statements of
\* a method run one after the other, each on the result of the one before
With(v, F(_)) == CHOOSE y \in {F(x) : x \in {v}} : TRUE
Min(S) == CHOOSE x \in S : \A y \in S : x <= y
Range(f) == {f[x] : x \in DOMAIN f}
Restrict(f, S) == [x \in S |-> f[x]]

\* no page is loaded
NoGame == [loaded |-> FALSE]

\* ------------------------------------------------------------- Player
\* the tap, as installed, and what it holds after a step that emitted msgs
\* The steps of the server end with Emit or Report; they leave the page in
\* the browser as it is.
Tap(on) == [on |-> on, msgs |-> <<>>, errors |-> <<>>]
Emit(msgs) ==
    /\ emitted' = [emitted EXCEPT !.msgs = IF emitted.on THEN msgs ELSE <<>>,
                                  !.errors = <<>>]
    /\ UNCHANGED client
\* socket.emit('error', { message }) to socket s
Error(s, message) == [event |-> "error", socket |-> s, message |-> message]
Report(s, message) ==
    /\ emitted' = [emitted EXCEPT !.msgs = <<>>,
                                  !.errors = IF emitted.on THEN <<Error(s, message)>>
                                             ELSE <<>>]
    /\ UNCHANGED client

NewPlayer(id, t) ==
    [id |-> id, roomCode |-> NoCode,
     x |-> 100 * Scale, y |-> 200 * Scale, vx |-> 0, vy |-> 0,
     team |-> "none", score |-> 0, input |-> NoInput, lastSeen |-> t]

\* setTeam that puts blue players on the red side's spot
SetTeamRedSpot(p, team) ==
    [p EXCEPT !.team = team,
              !.x = IF team \in {"red", "blue"} THEN 100 * Scale ELSE 400 * Scale,
              !.y = IF team \in {"red", "blue"} THEN 200 * Scale ELSE 50 * Scale,
              !.vx = 0, !.vy = 0]

SetTeam(p, team) ==
    [p EXCEPT !.team = team,
              !.x = IF team = "red" THEN 100 * Scale
                    ELSE IF team = "blue" THEN 700 * Scale ELSE 400 * Scale,
              !.y = IF team \in {"red", "blue"} THEN 200 * Scale ELSE 50 * Scale,
              !.vx = 0, !.vy = 0]

ResetPosition(p) ==
    [p EXCEPT !.x = IF p.team = "red" THEN 100 * Scale
                    ELSE IF p.team = "blue" THEN 700 * Scale ELSE @,
              !.y = IF p.team \in {"red", "blue"} THEN 200 * Scale ELSE @,
              !.vx = 0, !.vy = 0]

\* { ...input }: a fresh object with the payload's own enumerable properties;
\* a payload that is no object with flags spreads to an object without flags,
\* whose flags all read as falsy.
\* this.input = input: the payload itself is kept
SpreadNot(data) == data

Spread(data) == IF data.isObject THEN data ELSE NoInput

\* updateInput that keeps the keys a player already holds
UpdateInputFirstWins(p, data, t) ==
    [p EXCEPT !.input = IF @ = NoInput THEN Spread(data) ELSE @, !.lastSeen = t]

UpdateInput(p, data, t) == [p EXCEPT !.input = Spread(data), !.lastSeen = t]

\* Math.round(v * 100) / 100 that drops the third decimal
Round2Truncated(v) == (IF v < 0 THEN -((-v) \div 10) ELSE v \div 10) * 10

\* Math.round(v * 100) / 100 on thousandths: Math.round gives the nearest
\* integer and, of two equally near, the greater one
Round2(v) == ((v + 5) \div 10) * 10

GetGameData(p) ==
    [id |-> p.id, x |-> Round2(p.x), y |-> Round2(p.y),
     vx |-> Round2(p.vx), vy |-> Round2(p.vy), team |-> p.team]

\* ----------------------------------------------- GameRoom.players (Map)
\* A Map in insertion order: a sequence of [id, obj] entries.
MapIndex(m, id) ==
    IF \E i \in 1..Len(m) : m[i].id = id
    THEN CHOOSE i \in 1..Len(m) : m[i].id = id ELSE 0
MapHas(m, id) == MapIndex(m, id) # 0
MapGet(m, id) == IF MapHas(m, id) THEN m[MapIndex(m, id)].obj ELSE NoObj
MapSet(m, id, o) ==
    IF MapHas(m, id) THEN [m EXCEPT ![MapIndex(m, id)].obj = o]
    ELSE Append(m, [id |-> id, obj |-> o])
MapDelete(m, id) ==
    LET k == MapIndex(m, id)
    IN  IF k = 0 THEN m
        ELSE [i \in 1..(Len(m) - 1) |-> IF i < k THEN m[i] ELSE m[i + 1]]
MapObjs(m) == {m[i].obj : i \in 1..Len(m)}

\* ----------------------------------------------------------- GameRoom
\* The constructor's fields, before it adds the host.
EmptyRoom(code, t) ==
    [code |-> code, players |-> <<>>, isPlaying |-> FALSE,
     ball |-> [x |-> 400 * Scale, y |-> 200 * Scale, vx |-> 0, vy |-> 0],
     score |-> [red |-> 0, blue |-> 0],
     gameTime |-> 0, lastUpdate |-> t, gameLoopInterval |-> NoTimer,
     redTeamCount |-> 0, blueTeamCount |-> 0]

\* The room operations work on a room r and the Player heap h and yield
\* the new room, the new heap and the return value.
Out(r, h, v) == [r |-> r, h |-> h, ret |-> v]

AutoAssignTeam(r, h, o) ==
    IF r.redTeamCount < MaxTeamSize /\ r.redTeamCount <= r.blueTeamCount
    THEN Out([r EXCEPT !.redTeamCount = @ + 1],
             [h EXCEPT ![o] = SetTeam(@, "red")], TRUE)
    ELSE IF r.blueTeamCount < MaxTeamSize
    THEN Out([r EXCEPT !.blueTeamCount = @ + 1],
             [h EXCEPT ![o] = SetTeam(@, "blue")], TRUE)
    ELSE Out(r, [h EXCEPT ![o] = SetTeam(@, "none")], TRUE)

\* addPlayer without its capacity check
AddPlayerUnchecked(r, h, o) ==
    AutoAssignTeam([r EXCEPT !.players = MapSet(@, h[o].id, o)], h, o)

AddPlayer(r, h, o) ==
    IF Len(r.players) >= MaxPlayersDefault
    THEN Out(r, h, FALSE)
    ELSE AutoAssignTeam([r EXCEPT !.players = MapSet(@, h[o].id, o)], h, o)

\* removePlayer that takes every player who is not blue for a red one
RemovePlayerElseRed(r, h, id) ==
    LET o == MapGet(r.players, id)
    IN  IF o = NoObj THEN Out(r, h, FALSE)
        ELSE Out([r EXCEPT
                    !.redTeamCount = IF h[o].team # "blue" THEN @ - 1 ELSE @,
                    !.blueTeamCount = IF h[o].team = "blue" THEN @ - 1 ELSE @,
                    !.players = MapDelete(@, id)],
                 h, TRUE)

RemovePlayer(r, h, id) ==
    LET o == MapGet(r.players, id)
    IN  IF o = NoObj THEN Out(r, h, FALSE)
        ELSE Out([r EXCEPT
                    !.redTeamCount = IF h[o].team = "red" THEN @ - 1 ELSE @,
                    !.blueTeamCount = IF h[o].team = "blue" THEN @ - 1 ELSE @,
                    !.players = MapDelete(@, id)],
                 h, TRUE)

\* switchPlayerTeam without the restore of the old team count
SwitchPlayerTeamNoRestore(r, h, id, newTeam) ==
    LET o  == MapGet(r.players, id)
        r1 == [r EXCEPT
                 !.redTeamCount = IF h[o].team = "red" THEN @ - 1 ELSE @,
                 !.blueTeamCount = IF h[o].team = "blue" THEN @ - 1 ELSE @]
    IN  IF o = NoObj THEN Out(r, h, FALSE)
        ELSE IF newTeam = "red" /\ r1.redTeamCount < MaxTeamSize
        THEN Out([r1 EXCEPT !.redTeamCount = @ + 1],
                 [h EXCEPT ![o] = SetTeam(@, "red")], TRUE)
        ELSE IF newTeam = "blue" /\ r1.blueTeamCount < MaxTeamSize
        THEN Out([r1 EXCEPT !.blueTeamCount = @ + 1],
                 [h EXCEPT ![o] = SetTeam(@, "blue")], TRUE)
        ELSE IF newTeam \in {"spectator", "null"}
        THEN Out(r1, [h EXCEPT ![o] = SetTeam(@, "none")], TRUE)
        ELSE Out(r1, h, FALSE)

\* switchPlayerTeam whose spectator branch keeps the old team count
SwitchPlayerTeamKeepsCount(r, h, id, newTeam) ==
    LET o  == MapGet(r.players, id)
        r1 == [r EXCEPT
                 !.redTeamCount = IF h[o].team = "red" THEN @ - 1 ELSE @,
                 !.blueTeamCount = IF h[o].team = "blue" THEN @ - 1 ELSE @]
    IN  IF o = NoObj THEN Out(r, h, FALSE)
        ELSE IF newTeam = "red" /\ r1.redTeamCount < MaxTeamSize
        THEN Out([r1 EXCEPT !.redTeamCount = @ + 1],
                 [h EXCEPT ![o] = SetTeam(@, "red")], TRUE)
        ELSE IF newTeam = "blue" /\ r1.blueTeamCount < MaxTeamSize
        THEN Out([r1 EXCEPT !.blueTeamCount = @ + 1],
                 [h EXCEPT ![o] = SetTeam(@, "blue")], TRUE)
        ELSE IF newTeam \in {"spectator", "null"}
        THEN Out(r, [h EXCEPT ![o] = SetTeam(@, "none")], TRUE)
        ELSE Out(r, h, FALSE)

SwitchPlayerTeam(r, h, id, newTeam) ==
    LET o  == MapGet(r.players, id)
        r1 == [r EXCEPT
                 !.redTeamCount = IF h[o].team = "red" THEN @ - 1 ELSE @,
                 !.blueTeamCount = IF h[o].team = "blue" THEN @ - 1 ELSE @]
    IN  IF o = NoObj THEN Out(r, h, FALSE)
        ELSE IF newTeam = "red" /\ r1.redTeamCount < MaxTeamSize
        THEN Out([r1 EXCEPT !.redTeamCount = @ + 1],
                 [h EXCEPT ![o] = SetTeam(@, "red")], TRUE)
        ELSE IF newTeam = "blue" /\ r1.blueTeamCount < MaxTeamSize
        THEN Out([r1 EXCEPT !.blueTeamCount = @ + 1],
                 [h EXCEPT ![o] = SetTeam(@, "blue")], TRUE)
        ELSE IF newTeam \in {"spectator", "null"}
        THEN Out(r1, [h EXCEPT ![o] = SetTeam(@, "none")], TRUE)
        ELSE \* restore old team count
             Out([r1 EXCEPT
                    !.redTeamCount = IF h[o].team = "red" THEN @ + 1 ELSE @,
                    !.blueTeamCount = IF h[o].team = "blue" THEN @ + 1 ELSE @],
                 h, FALSE)

UpdatePlayerInput(r, h, id, data, t) ==
    LET o == MapGet(r.players, id)
    IN  IF o = NoObj THEN h ELSE [h EXCEPT ![o] = UpdateInput(@, data, t)]

\* ------------------------------------------------------ PhysicsEngine
\* Fixed-point arithmetic: quotients are truncated toward zero, so that the
\* model treats left and right, up and down alike.
Abs(a) == IF a < 0 THEN -a ELSE a
Sign(a) == IF a < 0 THEN -1 ELSE 1
Div(a, b) == Sign(a) * Sign(b) * (Abs(a) \div Abs(b))

RECURSIVE SqrtIter(_, _, _)
SqrtIter(n, lo, hi) ==
    IF lo >= hi THEN lo
    ELSE LET mid == (lo + hi + 1) \div 2
         IN  IF mid * mid <= n THEN SqrtIter(n, mid, hi)
             ELSE SqrtIter(n, lo, mid - 1)
\* Math.sqrt, to the unit below
Sqrt(n) == SqrtIter(n, 0, 46340)

FieldWidth   == 800     \* field units
FieldHeight  == 400
GoalHeight   == 80
GoalDepth    == 20
PlayerRadius == 15
BallRadius   == 10
MaxSpeed     == 5       \* units per tick
AccelPerMille    == 500   \* acceleration 0.5, in Scale units
FrictionPercent  == 98    \* friction 0.98
RestitutionTenths == 8    \* bounceRestitution 0.8
ActiveMs     == 5000    \* Player.isActive window
FrameCentiMs == 1667    \* updateGame: dt = deltaTime / 16.67

GoalTop    == ((FieldHeight - GoalHeight) \div 2) * Scale
GoalBottom == GoalTop + GoalHeight * Scale

Friction(v) == Div(v * FrictionPercent, 100)
Bounce(v)   == Div(Abs(v) * RestitutionTenths, 10)
\* v * dt with dt = deltaTime / 16.67
TimesDt(v, deltaTime) ==
    LET q == Abs(v) * deltaTime
    IN  Sign(v) * ((q \div FrameCentiMs) * 100 + ((q % FrameCentiMs) * 100) \div FrameCentiMs)

\* PhysicsEngine.distance, and the comparison distance < d.  Centres further
\* apart than d on one axis are not squared (the squares would not fit).
Distance(a, b) == Sqrt((a.x - b.x) * (a.x - b.x) + (a.y - b.y) * (a.y - b.y))
Closer(a, b, d) ==
    /\ Abs(a.x - b.x) < d
    /\ Abs(a.y - b.y) < d
    /\ (a.x - b.x) * (a.x - b.x) + (a.y - b.y) * (a.y - b.y) < d * d

\* PhysicsEngine.normalize, components in 1/Scale
Normalize(dx, dy) ==
    LET magnitude == Sqrt(dx * dx + dy * dy)
    IN  IF magnitude = 0 THEN [x |-> 0, y |-> 0]
        ELSE [x |-> Div(dx * Scale, magnitude), y |-> Div(dy * Scale, magnitude)]

\* the left wall without its goal mouth
ConstrainLeftWall(e, radius) ==
    IF e.x - radius < 0 THEN [e EXCEPT !.x = radius, !.vx = Bounce(@)] ELSE e

ConstrainLeft(e, radius) ==
    IF e.x - radius < 0
    THEN IF e.y >= GoalTop /\ e.y <= GoalBottom
         THEN IF e.x - radius < -(GoalDepth * Scale)
              THEN [e EXCEPT !.x = -(GoalDepth * Scale) + radius, !.vx = Bounce(@)]
              ELSE e
         ELSE [e EXCEPT !.x = radius, !.vx = Bounce(@)]
    ELSE e

ConstrainRight(e, radius) ==
    IF e.x + radius > FieldWidth * Scale
    THEN IF e.y >= GoalTop /\ e.y <= GoalBottom
         THEN IF e.x + radius > (FieldWidth + GoalDepth) * Scale
              THEN [e EXCEPT !.x = (FieldWidth + GoalDepth) * Scale - radius,
                             !.vx = -Bounce(@)]
              ELSE e
         ELSE [e EXCEPT !.x = FieldWidth * Scale - radius, !.vx = -Bounce(@)]
    ELSE e

ConstrainTopInclusive(e, radius) ==
    IF e.y - radius <= 0 THEN [e EXCEPT !.y = radius, !.vy = Bounce(@)] ELSE e

ConstrainTop(e, radius) ==
    IF e.y - radius < 0 THEN [e EXCEPT !.y = radius, !.vy = Bounce(@)] ELSE e

ConstrainBottomNoFlip(e, radius) ==
    IF e.y + radius > FieldHeight * Scale
    THEN [e EXCEPT !.y = FieldHeight * Scale - radius, !.vy = Bounce(@)]
    ELSE e

ConstrainBottom(e, radius) ==
    IF e.y + radius > FieldHeight * Scale
    THEN [e EXCEPT !.y = FieldHeight * Scale - radius, !.vy = -Bounce(@)]
    ELSE e

ConstrainToBounds(e, radius) ==
    With(ConstrainLeft(e, radius), LAMBDA e1 :
    With(ConstrainRight(e1, radius), LAMBDA e2 :
    With(ConstrainTop(e2, radius), LAMBDA e3 : ConstrainBottom(e3, radius))))

LimitSpeed(e) ==
    LET s2 == e.vx * e.vx + e.vy * e.vy
        speed == Sqrt(s2)
    IN  IF s2 > (MaxSpeed * Scale) * (MaxSpeed * Scale)
        THEN [e EXCEPT !.vx = Div(e.vx * MaxSpeed * Scale, speed),
                       !.vy = Div(e.vy * MaxSpeed * Scale, speed)]
        ELSE e

ApplyInput(p, input) ==
    [p EXCEPT
       !.vy = @ - (IF input.up THEN AccelPerMille ELSE 0)
                + (IF input.down THEN AccelPerMille ELSE 0),
       !.vx = @ - (IF input.left THEN AccelPerMille ELSE 0)
                + (IF input.right THEN AccelPerMille ELSE 0)]

Integrate(e, deltaTime) ==
    LET f == [e EXCEPT !.vx = Friction(@), !.vy = Friction(@)]
    IN  [f EXCEPT !.x = @ + TimesDt(f.vx, deltaTime),
                  !.y = @ + TimesDt(f.vy, deltaTime)]

\* updatePlayer that uses the keys up: the flags are cleared once applied
UpdatePlayerOnce(p, input, deltaTime) ==
    With(ApplyInput(p, input), LAMBDA p1 :
    With(LimitSpeed(p1), LAMBDA p2 :
    With(Integrate(p2, deltaTime), LAMBDA p3 :
         [ConstrainToBounds(p3, PlayerRadius * Scale) EXCEPT !.input = NoInput])))

UpdatePlayer(p, input, deltaTime) ==
    With(ApplyInput(p, input), LAMBDA p1 :
    With(LimitSpeed(p1), LAMBDA p2 :
    With(Integrate(p2, deltaTime), LAMBDA p3 :
         ConstrainToBounds(p3, PlayerRadius * Scale))))

UpdateBall(ball, deltaTime) ==
    With(Integrate(ball, deltaTime), LAMBDA b1 :
         ConstrainToBounds(b1, BallRadius * Scale))

CheckCollision(a, b, radius1, radius2) == Closer(a, b, radius1 + radius2)

\* resolveCollision that divides each impulse by the mass of the other body
ResolveCollisionOtherMass(a, b, radius1, radius2, inv1, inv2) ==
    With(Normalize(b.x - a.x, b.y - a.y), LAMBDA normal :
    LET minDistance == radius1 + radius2
        distance == Distance(a, b)
        separation == Div(minDistance - distance, 2)
        a1 == [a EXCEPT !.x = @ - Div(normal.x * separation, Scale),
                        !.y = @ - Div(normal.y * separation, Scale)]
        b1 == [b EXCEPT !.x = @ + Div(normal.x * separation, Scale),
                        !.y = @ + Div(normal.y * separation, Scale)]
        velocityAlongNormal ==
            Div((b.vx - a.vx) * normal.x + (b.vy - a.vy) * normal.y, Scale)
        impulseScalar ==
            Div(-(10 + RestitutionTenths) * velocityAlongNormal, 10 * (inv1 + inv2))
        ix == Div(impulseScalar * normal.x, Scale)
        iy == Div(impulseScalar * normal.y, Scale)
    IN  IF ~Closer(a, b, minDistance) THEN <<a, b>>
        ELSE IF velocityAlongNormal > 0 THEN <<a1, b1>>
        ELSE <<[a1 EXCEPT !.vx = @ - ix * inv2, !.vy = @ - iy * inv2],
               [b1 EXCEPT !.vx = @ + ix * inv1, !.vy = @ + iy * inv1]>>)

\* resolveCollision(obj1, obj2, radius1, radius2, mass1, mass2); the masses
\* are given by their inverses (1/mass1, 1/mass2).  Yields <<obj1, obj2>>.
ResolveCollision(a, b, radius1, radius2, inv1, inv2) ==
    With(Normalize(b.x - a.x, b.y - a.y), LAMBDA normal :
    LET minDistance == radius1 + radius2
        distance == Distance(a, b)
        separation == Div(minDistance - distance, 2)
        a1 == [a EXCEPT !.x = @ - Div(normal.x * separation, Scale),
                        !.y = @ - Div(normal.y * separation, Scale)]
        b1 == [b EXCEPT !.x = @ + Div(normal.x * separation, Scale),
                        !.y = @ + Div(normal.y * separation, Scale)]
        velocityAlongNormal ==
            Div((b.vx - a.vx) * normal.x + (b.vy - a.vy) * normal.y, Scale)
        impulseScalar ==
            Div(-(10 + RestitutionTenths) * velocityAlongNormal, 10 * (inv1 + inv2))
        ix == Div(impulseScalar * normal.x, Scale)
        iy == Div(impulseScalar * normal.y, Scale)
    IN  IF ~Closer(a, b, minDistance) THEN <<a, b>>
        ELSE IF velocityAlongNormal > 0 THEN <<a1, b1>>
        ELSE <<[a1 EXCEPT !.vx = @ - ix * inv1, !.vy = @ - iy * inv1],
               [b1 EXCEPT !.vx = @ + ix * inv2, !.vy = @ + iy * inv2]>>)

\* checkGoal with the two ends of the goal span left out
CheckGoalOpenSpan(ball) ==
    IF ball.x < 0 /\ ball.y > GoalTop /\ ball.y < GoalBottom THEN "blue"
    ELSE IF ball.x > FieldWidth * Scale /\ ball.y > GoalTop /\ ball.y < GoalBottom
    THEN "red"
    ELSE "none"

CheckGoal(ball) ==
    IF ball.x < 0 /\ ball.y >= GoalTop /\ ball.y <= GoalBottom THEN "blue"
    ELSE IF ball.x > FieldWidth * Scale /\ ball.y >= GoalTop /\ ball.y <= GoalBottom
    THEN "red"
    ELSE "none"

\* resetBall that stops the ball where it is
ResetBallInPlace(ball) == [ball EXCEPT !.vx = 0, !.vy = 0]

ResetBall(ball) ==
    [ball EXCEPT !.x = 400 * Scale, !.y = 200 * Scale, !.vx = 0, !.vy = 0]

IsActive(p, t) == t - p.lastSeen < ActiveMs

\* updatePlayer reads input.up, input.down, input.left and input.right: a
\* TypeError when the input is null or undefined.  The players of room r
\* for whom a tick at time t would read the flags of such an input.
Unreadable(r, h, t) ==
    {i \in 1..Len(r.players) :
        \E p \in {h[r.players[i].obj]} :
            p.team # "none" /\ IsActive(p, t) /\ ~p.input.isObject}

\* ------------------------------------------- GameRoom: the tick (updateGame)
RECURSIVE UpdatePlayersIdleToo(_, _, _, _, _)
\* this.players.forEach(player => if (player.team) ...)
UpdatePlayersIdleToo(m, i, h, deltaTime, t) ==
    IF i > Len(m) THEN h
    ELSE LET o == m[i].obj
             p == h[o]
         IN  With(IF p.team # "none"
                  THEN [h EXCEPT ![o] = UpdatePlayer(p, p.input, deltaTime)]
                  ELSE h,
                  LAMBDA h1 : UpdatePlayersIdleToo(m, i + 1, h1, deltaTime, t))

RECURSIVE UpdatePlayers(_, _, _, _, _)
\* this.players.forEach(player => if (player.team && player.isActive()) ...)
UpdatePlayers(m, i, h, deltaTime, t) ==
    IF i > Len(m) THEN h
    ELSE LET o == m[i].obj
             p == h[o]
         IN  With(IF p.team # "none" /\ IsActive(p, t)
                  THEN [h EXCEPT ![o] = UpdatePlayer(p, p.input, deltaTime)]
                  ELSE h,
                  LAMBDA h1 : UpdatePlayers(m, i + 1, h1, deltaTime, t))

RECURSIVE BallCollisionsAnyone(_, _, _, _)
\* checkCollisions, first loop, without its test of player.team
BallCollisionsAnyone(m, i, h, ball) ==
    IF i > Len(m) THEN [h |-> h, ball |-> ball]
    ELSE LET o == m[i].obj
             p == h[o]
             hit == CheckCollision(p, ball, PlayerRadius * Scale, BallRadius * Scale)
         IN  IF hit
             THEN With(ResolveCollision(p, ball, PlayerRadius * Scale, BallRadius * Scale, 1, 2),
                       LAMBDA res : BallCollisionsAnyone(m, i + 1, [h EXCEPT ![o] = res[1]], res[2]))
             ELSE BallCollisionsAnyone(m, i + 1, h, ball)

RECURSIVE BallCollisions(_, _, _, _)
\* checkCollisions, first loop: each teamed player against the ball
BallCollisions(m, i, h, ball) ==
    IF i > Len(m) THEN [h |-> h, ball |-> ball]
    ELSE LET o == m[i].obj
             p == h[o]
             hit == p.team # "none"
                    /\ CheckCollision(p, ball, PlayerRadius * Scale, BallRadius * Scale)
         IN  IF hit
             THEN With(ResolveCollision(p, ball, PlayerRadius * Scale, BallRadius * Scale, 1, 2),
                       LAMBDA res : BallCollisions(m, i + 1, [h EXCEPT ![o] = res[1]], res[2]))
             ELSE BallCollisions(m, i + 1, h, ball)

RECURSIVE PairCollisions(_, _, _, _)
\* checkCollisions, second loop: every pair i < j of the teamed players
PairCollisions(arr, i, j, h) ==
    IF i > Len(arr) THEN h
    ELSE IF j > Len(arr) THEN PairCollisions(arr, i + 1, i + 2, h)
    ELSE LET a == h[arr[i]]
             b == h[arr[j]]
         IN  IF CheckCollision(a, b, PlayerRadius * Scale, PlayerRadius * Scale)
             THEN With(ResolveCollision(a, b, PlayerRadius * Scale, PlayerRadius * Scale, 1, 1),
                       LAMBDA res : With([h EXCEPT ![arr[i]] = res[1], ![arr[j]] = res[2]],
                       LAMBDA h1 : PairCollisions(arr, i, j + 1, h1)))
             ELSE PairCollisions(arr, i, j + 1, h)

RECURSIVE TeamedObjs(_, _, _)
\* Array.from(this.players.values()).filter(p => p.team)
TeamedObjs(m, i, h) ==
    IF i > Len(m) THEN <<>>
    ELSE IF h[m[i].obj].team # "none" THEN <<m[i].obj>> \o TeamedObjs(m, i + 1, h)
    ELSE TeamedObjs(m, i + 1, h)

CheckCollisions(r, h) ==
    With(BallCollisions(r.players, 1, h, r.ball), LAMBDA bc :
    With(TeamedObjs(r.players, 1, bc.h), LAMBDA arr :
         [r |-> [r EXCEPT !.ball = bc.ball], h |-> PairCollisions(arr, 1, 2, bc.h)]))

\* handleGoal that gives the point to both teams
HandleGoalBoth(r, h, team) ==
    [r |-> [r EXCEPT !.score = [red |-> @.red + 1, blue |-> @.blue + 1],
                     !.ball = ResetBall(@)],
     h |-> [o \in DOMAIN h |->
              IF o \in MapObjs(r.players) /\ h[o].team # "none"
              THEN ResetPosition(h[o]) ELSE h[o]]]

\* handleGoal that takes the point from the other team
HandleGoalSwing(r, h, team) ==
    [r |-> [r EXCEPT !.score = [side \in {"red", "blue"} |->
                                  IF side = team THEN @[side] + 1 ELSE @[side] - 1],
                     !.ball = ResetBall(@)],
     h |-> [o \in DOMAIN h |->
              IF o \in MapObjs(r.players) /\ h[o].team # "none"
              THEN ResetPosition(h[o]) ELSE h[o]]]

\* handleGoal that leaves the players where they are
HandleGoalBallOnly(r, h, team) ==
    [r |-> [r EXCEPT !.score[team] = @ + 1, !.ball = ResetBall(@)], h |-> h]

HandleGoal(r, h, team) ==
    [r |-> [r EXCEPT !.score[team] = @ + 1, !.ball = ResetBall(@)],
     h |-> [o \in DOMAIN h |->
              IF o \in MapObjs(r.players) /\ h[o].team # "none"
              THEN ResetPosition(h[o]) ELSE h[o]]]

\* updateGame up to its goal check: the players and the ball are moved and
\* the collisions resolved
MoveAndCollide(r, h, t) ==
    LET deltaTime == t - r.lastUpdate
    IN  With(UpdatePlayers(r.players, 1, h, deltaTime, t), LAMBDA h1 :
        With([r EXCEPT !.lastUpdate = t, !.ball = UpdateBall(@, deltaTime)], LAMBDA r1 :
             CheckCollisions(r1, h1)))

UpdateGame(r, h, t) ==
    LET deltaTime == t - r.lastUpdate
    IN  With(MoveAndCollide(r, h, t), LAMBDA c :
        With(CheckGoal(c.r.ball), LAMBDA goalScored :
        With(IF goalScored # "none" THEN HandleGoal(c.r, c.h, goalScored) ELSE c, LAMBDA g :
             [r |-> [g.r EXCEPT !.gameTime = @ + deltaTime], h |-> g.h])))

\* resetGame(); it returns nothing
ResetGame(r, h) ==
    Out([r EXCEPT !.ball = [x |-> 400 * Scale, y |-> 200 * Scale, vx |-> 0, vy |-> 0],
                  !.score = [red |-> 0, blue |-> 0],
                  !.gameTime = 0],
        [o \in DOMAIN h |->
           IF o \in MapObjs(r.players) /\ h[o].team # "none"
           THEN [ResetPosition(h[o]) EXCEPT !.score = 0] ELSE h[o]],
        FALSE)

GetGameState(r, h) ==
    [players |-> [i \in 1..Len(r.players) |-> GetGameData(h[r.players[i].obj])],
     ball |-> [x |-> Round2(r.ball.x), y |-> Round2(r.ball.y),
               vx |-> Round2(r.ball.vx), vy |-> Round2(r.ball.vy)],
     score |-> r.score, gameTime |-> r.gameTime, isPlaying |-> r.isPlaying,
     roomCode |-> r.code]

\* a 'gameState' message for every socket in the socket.io room of the code
ToRoom(code, data) ==
    [event |-> "gameState", to |-> "room", room |-> code, socket |-> 0, data |-> data]
\* a 'gameState' message for one socket
ToSocket(s, data) ==
    [event |-> "gameState", to |-> "socket", room |-> NoCode, socket |-> s, data |-> data]

BroadcastGameState(r, h) == <<ToRoom(r.code, GetGameState(r, h))>>

\* ------------------------------------------------ GameRoom: the scheduler
TimerIds(tm) == {x.id : x \in tm}
ClearInterval(tm, id) == {x \in tm : x.id # id}
\* setInterval for the room object in `slot`; the timer first fires one
\* interval from now.  Yields the new timer set and the new handle <<slot, n>>.
SetInterval(tm, slot, t) ==
    LET id == <<slot, Min({n \in 1..(Cardinality(tm) + 1) : <<slot, n>> \notin TimerIds(tm)})>>
    IN  [timers |-> tm \cup {[id |-> id, room |-> slot, due |-> t + TickMs]}, id |-> id]

\* startGameLoop without the clearInterval of the running timer
StartGameLoopStacked(r, slot, tm, t) ==
    LET si == SetInterval(tm, slot, t)
    IN  [r |-> [r EXCEPT !.isPlaying = TRUE, !.lastUpdate = t,
                         !.gameLoopInterval = si.id],
         timers |-> si.timers]

\* startGameLoop that leaves gameState.lastUpdate as it was
StartGameLoopKeepsClock(r, slot, tm, t) ==
    LET tm1 == IF r.gameLoopInterval # NoTimer
               THEN ClearInterval(tm, r.gameLoopInterval) ELSE tm
        si  == SetInterval(tm1, slot, t)
    IN  [r |-> [r EXCEPT !.isPlaying = TRUE, !.gameLoopInterval = si.id],
         timers |-> si.timers]

StartGameLoop(r, slot, tm, t) ==
    LET tm1 == IF r.gameLoopInterval # NoTimer
               THEN ClearInterval(tm, r.gameLoopInterval) ELSE tm
        si  == SetInterval(tm1, slot, t)
    IN  [r |-> [r EXCEPT !.isPlaying = TRUE, !.lastUpdate = t,
                         !.gameLoopInterval = si.id],
         timers |-> si.timers]

\* stopGameLoop that forgets the handle without clearInterval
StopGameLoopForgets(r, tm) ==
    [r |-> [r EXCEPT !.isPlaying = FALSE, !.gameLoopInterval = NoTimer],
     timers |-> tm]

\* stopGameLoop that leaves isPlaying as it was
StopGameLoopStillPlaying(r, tm) ==
    [r |-> [r EXCEPT !.gameLoopInterval = NoTimer],
     timers |-> IF r.gameLoopInterval # NoTimer
                THEN ClearInterval(tm, r.gameLoopInterval) ELSE tm]

StopGameLoop(r, tm) ==
    [r |-> [r EXCEPT !.isPlaying = FALSE, !.gameLoopInterval = NoTimer],
     timers |-> IF r.gameLoopInterval # NoTimer
                THEN ClearInterval(tm, r.gameLoopInterval) ELSE tm]

\* --------------------------------------------------------- GameServer
\* What the JavaScript heap still holds: GameRoom objects reachable from the
\* registry or from a timer's closure, Player objects reachable from the
\* server's map or from a reachable room.  Everything else is collected.
Commit(pl, rg, gr0, h0, tm) ==
    \E gr \in {gr0}, h \in {h0} :
    LET liveSlots == (Range(rg) \cup {x.room : x \in tm}) \cap DOMAIN gr
        liveObjs  == ((Range(pl) \cup UNION {MapObjs(gr[sl].players) : sl \in liveSlots})
                      \cap DOMAIN h)
    IN  /\ players' = pl
        /\ rooms' = rg
        /\ gameRooms' = Restrict(gr, liveSlots)
        /\ heap' = Restrict(h, liveObjs)
        /\ timers' = tm

MapPut(f, k, v) == [x \in DOMAIN f \cup {k} |-> IF x = k THEN v ELSE f[x]]
MapRemove(f, k) == [x \in DOMAIN f \ {k} |-> f[x]]

\* Player objects of socket id s that some room still holds
HeldByRooms(s) ==
    {o \in DOMAIN heap : o[1] = s /\ \E sl \in DOMAIN gameRooms :
                                        o \in MapObjs(gameRooms[sl].players)}

\* The environment's budget: a request that a well-behaved client would not
\* send (a second joinGame, a createRoom or joinRoom from inside a room) is
\* handled like any other, and counted.
Misuse(outOfProtocol) ==
    IF outOfProtocol THEN misuse < MaxMisuse /\ misuse' = misuse + 1
    ELSE UNCHANGED misuse
InARoom(s) == players[s] # NoObj /\ heap[players[s]].roomCode # NoCode

\* socket.io 'connection': the socket gets its id; ids are numbered in the
\* order of connection.
Connect(s) ==
    /\ listening
    /\ sock[s] = "new"
    /\ \A q \in Sockets : q < s => sock[q] # "new"
    /\ sock' = [sock EXCEPT ![s] = "open"]
    /\ UNCHANGED <<listening, players, rooms, gameRooms, heap, timers, now, misuse, nInputs, calls, ret>>
    /\ Emit(<<>>)

\* handleJoinGame(socket, {nickname}); valid: the nickname passes the check
HandleJoinGame(s, valid) ==
    /\ sock[s] = "open"
    /\ IF ~valid
       THEN UNCHANGED <<players, rooms, gameRooms, heap, timers>>
       ELSE /\ \E k \in 1..MaxObjs : <<s, k>> \notin HeldByRooms(s)
            /\ LET o == <<s, Min({k \in 1..MaxObjs : <<s, k>> \notin HeldByRooms(s)})>>
               IN  Commit([players EXCEPT ![s] = o], rooms, gameRooms,
                          MapPut(heap, o, NewPlayer(s, now)), timers)
    /\ Misuse(valid /\ players[s] # NoObj)
    /\ UNCHANGED <<sock, listening, now, nInputs, calls, ret>>
    /\ IF valid THEN Emit(<<>>) ELSE Report(s, "Invalid nickname")

\* generateRoomCode(): any code the generator can produce
GenerateRoomCode == Codes
\* roomCode = generateRoomCode(), taken as it comes
FirstRoomCodes(rg) == GenerateRoomCode

\* do { roomCode = generateRoomCode() } while (this.rooms.has(roomCode))
UniqueRoomCodes(rg) == {c \in GenerateRoomCode : c \notin DOMAIN rg}

\* handleCreateRoom(socket, data); code: the code the generator ends with
HandleCreateRoom(s, code) ==
    /\ sock[s] = "open"
    /\ IF players[s] = NoObj
       THEN UNCHANGED <<players, rooms, gameRooms, heap, timers>>
       ELSE /\ code \in UniqueRoomCodes(rooms)
            /\ NewSlot(code, gameRooms) \notin DOMAIN gameRooms
            /\ LET o    == players[s]
                   slot == NewSlot(code, gameRooms)
                   c    == AddPlayer(EmptyRoom(code, now), heap, o)
                   h2   == [c.h EXCEPT ![o].roomCode = code]
                   st   == StartGameLoop(c.r, slot, timers, now)
               IN  Commit(players, MapPut(rooms, code, slot),
                          MapPut(gameRooms, slot, st.r), h2, st.timers)
    /\ Misuse(InARoom(s))
    /\ UNCHANGED <<sock, listening, now, nInputs, calls, ret>>
    /\ IF players[s] = NoObj THEN Report(s, "Player not found") ELSE Emit(<<>>)

\* handleJoinRoom without its check of the room's size
HandleJoinRoomAnySize(s, code) ==
    /\ sock[s] = "open"
    /\ IF players[s] = NoObj
       THEN UNCHANGED <<players, rooms, gameRooms, heap, timers>>
            /\ Report(s, "Player not found")
       ELSE IF code \notin DOMAIN rooms
       THEN UNCHANGED <<players, rooms, gameRooms, heap, timers>>
            /\ Report(s, "Room not found")
       ELSE LET o    == players[s]
                slot == rooms[code]
                r    == gameRooms[slot]
                c    == AddPlayer(r, heap, o)
            IN  /\ Commit(players, rooms, [gameRooms EXCEPT ![slot] = c.r],
                          [c.h EXCEPT ![o].roomCode = code], timers)
                /\ Emit(<<ToSocket(s, GetGameState(c.r, c.h))>>)
    /\ Misuse(InARoom(s) /\ code \in DOMAIN rooms
              /\ Len(gameRooms[rooms[code]].players) < MaxPlayersDefault)
    /\ UNCHANGED <<sock, listening, now, nInputs, calls, ret>>

\* handleJoinRoom(socket, {roomCode})
HandleJoinRoom(s, code) ==
    /\ sock[s] = "open"
    /\ IF players[s] = NoObj
       THEN UNCHANGED <<players, rooms, gameRooms, heap, timers>>
            /\ Report(s, "Player not found")
       ELSE IF code \notin DOMAIN rooms
       THEN UNCHANGED <<players, rooms, gameRooms, heap, timers>>
            /\ Report(s, "Room not found")
       ELSE LET o    == players[s]
                slot == rooms[code]
                r    == gameRooms[slot]
                c    == AddPlayer(r, heap, o)
            IN  IF Len(r.players) >= MaxPlayersDefault
                THEN UNCHANGED <<players, rooms, gameRooms, heap, timers>>
                     /\ Report(s, "Room is full")
                ELSE /\ Commit(players, rooms, [gameRooms EXCEPT ![slot] = c.r],
                               [c.h EXCEPT ![o].roomCode = code], timers)
                     /\ Emit(<<ToSocket(s, GetGameState(c.r, c.h))>>)
    /\ Misuse(InARoom(s) /\ code \in DOMAIN rooms
              /\ Len(gameRooms[rooms[code]].players) < MaxPlayersDefault)
    /\ UNCHANGED <<sock, listening, now, nInputs, calls, ret>>

\* handlePlayerInput(socket, data)
HandlePlayerInput(s, data) ==
    /\ sock[s] = "open"
    /\ LET o == players[s]
       IN  IF o = NoObj THEN UNCHANGED <<heap, nInputs>>
           ELSE IF heap[o].roomCode = NoCode \/ heap[o].roomCode \notin DOMAIN rooms
           THEN UNCHANGED <<heap, nInputs>>
           ELSE /\ nInputs < MaxInputs
                /\ nInputs' = nInputs + 1
                /\ heap' = UpdatePlayerInput(gameRooms[rooms[heap[o].roomCode]],
                                             [heap EXCEPT ![o].input = data],
                                             heap[o].id, data, now)
    /\ UNCHANGED <<sock, listening, players, rooms, gameRooms, timers, now, misuse, calls, ret>>
    /\ Emit(<<>>)

\* removePlayerFromRoom that deletes the empty room with its loop running
RemovePlayerFromRoomNoStop(w, o) ==
    LET code == w.h[o].roomCode
        slot == w.rg[code]
        rm   == RemovePlayer(w.gr[slot], w.h, w.h[o].id)
        h2   == [rm.h EXCEPT ![o].roomCode = NoCode]
    IN  IF code = NoCode \/ code \notin DOMAIN w.rg THEN w
        ELSE IF Len(rm.r.players) = 0
        THEN [rg |-> MapRemove(w.rg, code), gr |-> [w.gr EXCEPT ![slot] = rm.r],
              h |-> h2, tm |-> w.tm]
        ELSE [rg |-> w.rg, gr |-> [w.gr EXCEPT ![slot] = rm.r], h |-> h2, tm |-> w.tm]

\* removePlayerFromRoom(socket, player), on the state w = [rg, gr, h, tm]
RemovePlayerFromRoom(w, o) ==
    LET code == w.h[o].roomCode
        slot == w.rg[code]
        rm   == RemovePlayer(w.gr[slot], w.h, w.h[o].id)
        st   == StopGameLoop(rm.r, w.tm)
        h2   == [rm.h EXCEPT ![o].roomCode = NoCode]
    IN  IF code = NoCode \/ code \notin DOMAIN w.rg THEN w
        ELSE IF Len(rm.r.players) = 0
        THEN [rg |-> MapRemove(w.rg, code), gr |-> [w.gr EXCEPT ![slot] = st.r],
              h |-> h2, tm |-> st.timers]
        ELSE [rg |-> w.rg, gr |-> [w.gr EXCEPT ![slot] = rm.r], h |-> h2, tm |-> w.tm]

World == [rg |-> rooms, gr |-> gameRooms, h |-> heap, tm |-> timers]

\* handleLeaveRoom(socket)
HandleLeaveRoom(s) ==
    /\ sock[s] = "open"
    /\ IF players[s] = NoObj
       THEN UNCHANGED <<players, rooms, gameRooms, heap, timers>>
       ELSE IF heap[players[s]].roomCode = NoCode
       THEN UNCHANGED <<players, rooms, gameRooms, heap, timers>>
       ELSE LET w == RemovePlayerFromRoom(World, players[s])
            IN  Commit(players, w.rg, w.gr, w.h, w.tm)
    /\ UNCHANGED <<sock, listening, now, misuse, nInputs, calls, ret>>
    /\ Emit(<<>>)

\* handleSwitchTeam(socket, {team})
HandleSwitchTeam(s, team) ==
    /\ sock[s] = "open"
    /\ LET o == players[s]
       IN  IF o = NoObj
           THEN UNCHANGED <<gameRooms, heap>> /\ Emit(<<>>)
           ELSE IF heap[o].roomCode = NoCode \/ heap[o].roomCode \notin DOMAIN rooms
           THEN UNCHANGED <<gameRooms, heap>> /\ Emit(<<>>)
           ELSE LET slot == rooms[heap[o].roomCode]
                    sw   == SwitchPlayerTeam(gameRooms[slot], heap, heap[o].id, team)
                IN  /\ gameRooms' = [gameRooms EXCEPT ![slot] = sw.r]
                    /\ heap' = sw.h
                    /\ Emit(<<ToRoom(heap[o].roomCode, GetGameState(sw.r, sw.h))>>)
    /\ UNCHANGED <<sock, listening, players, rooms, timers, now, misuse, nInputs, calls, ret>>

\* socket.io 'disconnect' and handleDisconnect(socket)
HandleDisconnect(s) ==
    /\ sock[s] = "open"
    /\ sock' = [sock EXCEPT ![s] = "closed"]
    /\ IF players[s] = NoObj
       THEN UNCHANGED <<players, rooms, gameRooms, heap, timers>>
       ELSE LET w == RemovePlayerFromRoom(World, players[s])
            IN  Commit([players EXCEPT ![s] = NoObj], w.rg, w.gr, w.h, w.tm)
    /\ UNCHANGED <<listening, now, misuse, nInputs, calls, ret>>
    /\ Emit(<<>>)

RECURSIVE StopAll(_, _, _)
\* this.rooms.forEach(room => room.stopGameLoop())
StopAll(slots, gr, tm) ==
    IF slots = {} THEN [gr |-> gr, tm |-> tm]
    ELSE LET sl == Min(slots)
             st == StopGameLoop(gr[sl], tm)
         IN  StopAll(slots \ {sl}, [gr EXCEPT ![sl] = st.r], st.timers)

\* shutdown(): SIGTERM or SIGINT
Shutdown ==
    /\ LET sa == StopAll(Range(rooms), gameRooms, timers)
       IN  Commit(players, rooms, sa.gr, heap, sa.tm)
    /\ listening' = FALSE
    /\ UNCHANGED <<sock, now, misuse, nInputs, calls, ret>>
    /\ Emit(<<>>)

\* The interval callback of timer x, run at time t: updateGame, then
\* broadcastGameState.  setInterval fires no earlier than one interval after
\* the previous firing.
Fire(x, t) ==
    \E u \in {UpdateGame(gameRooms[x.room], heap, t)} :
        /\ Commit(players, rooms, [gameRooms EXCEPT ![x.room] = u.r], u.h,
                  (timers \ {x}) \cup {[x EXCEPT !.due = t + TickMs]})
        /\ Emit(BroadcastGameState(u.r, u.h))

\* a timer that is due fires, on time or late
Tick(x) ==
    /\ x \in timers
    /\ now >= x.due
    /\ Fire(x, now)
    /\ UNCHANGED <<sock, listening, now, misuse, nInputs, calls, ret>>

\* the wall clock, up to maxNow
Advance(maxNow) ==
    /\ now + TickMs <= maxNow
    /\ now' = now + TickMs
    /\ UNCHANGED <<sock, listening, players, rooms, gameRooms, heap, timers, misuse, nInputs, calls, ret>>
    /\ Emit(<<>>)

AdvanceTime == Advance(MaxNow)

NoRet == [op |-> "none", id |-> 0, arg |-> "none", ret |-> FALSE]

Init ==
    /\ sock = [s \in Sockets |-> "new"]
    /\ listening = TRUE
    /\ players = [s \in Sockets |-> NoObj]
    /\ rooms = <<>>
    /\ gameRooms = <<>>
    /\ heap = <<>>
    /\ timers = {}
    /\ now = 0
    /\ misuse = 0
    /\ nInputs = 0
    /\ calls = 0
    /\ ret = NoRet
    /\ emitted = Tap(FALSE)
    /\ client = NoGame

\* The server under connection, room and team requests, with its rooms'
\* schedulers running and the process signalled to shut down at any time.
Next ==
    \/ \E s \in Sockets : Connect(s)
    \/ \E s \in Sockets, valid \in BOOLEAN : HandleJoinGame(s, valid)
    \/ \E s \in Sockets, code \in Codes : HandleCreateRoom(s, code)
    \/ \E s \in Sockets, code \in Codes : HandleJoinRoom(s, code)
    \/ \E s \in Sockets : HandleLeaveRoom(s)
    \/ \E s \in Sockets, team \in Targets : HandleSwitchTeam(s, team)
    \/ \E s \in Sockets : HandleDisconnect(s)
    \/ \E x \in timers : Tick(x)
    \/ AdvanceTime
    \/ Shutdown

Spec == Init /\ [][Next]_vars

\* The same, with the players' input events.
NextServer ==
    \/ Next
    \/ \E s \in Sockets, data \in InputData : HandlePlayerInput(s, data)

SpecServer == Init /\ [][NextServer]_vars

\* ------------------------------------------------- a GameRoom on its own
\* new GameRoom(code, host) with NPlayers Player objects at hand, and the
\* room's methods called directly.  Player p is the object <<p, 1>>.
Hands == 1..NPlayers
TheRoom == gameRooms[1]
Members == {p \in Hands : MapHas(TheRoom.players, p)}

\* the room and its host, with the tap on or off
RoomAtStart(on) ==
    LET h0 == [o \in {<<p, 1>> : p \in Hands} |-> NewPlayer(o[1], 0)]
        g  == AddPlayer(EmptyRoom(Code(0), 0), h0, <<1, 1>>)
    IN  /\ sock = [s \in Sockets |-> "new"]
        /\ listening = FALSE
        /\ players = [p \in Hands |-> <<p, 1>>]
        /\ rooms = MapPut(<<>>, Code(0), 1)
        /\ gameRooms = MapPut(<<>>, 1, g.r)
        /\ heap = g.h
        /\ timers = {}
        /\ now = 0
        /\ misuse = 0
        /\ nInputs = 0
        /\ calls = 0
        /\ ret = NoRet
        /\ emitted = Tap(on)
        /\ client = NoGame

InitRoom == RoomAtStart(FALSE)

\* the call's effect on the room and the players, and its record
RoomCall(out0, op, p, arg) ==
    \E out \in {out0} :
    /\ gameRooms' = [gameRooms EXCEPT ![1] = out.r]
    /\ heap' = out.h
    /\ ret' = [op |-> op, id |-> p, arg |-> arg, ret |-> out.ret]

Budget(counted) ==
    IF counted THEN calls < MaxCalls /\ calls' = calls + 1
    ELSE UNCHANGED calls

\* room.addPlayer(p): the next player not in the room, or one already in it
RoomAddPlayer(p) ==
    /\ p \in Members \/ \A q \in Hands \ Members : p <= q
    /\ Budget(p \in Members)
    /\ RoomCall(AddPlayer(TheRoom, heap, players[p]), "addPlayer", p, "none")
    /\ UNCHANGED <<sock, listening, players, rooms, timers, now, misuse, nInputs>>
    /\ Emit(<<>>)

\* room.removePlayer(p.id)
RoomRemovePlayer(p) ==
    /\ Budget(TRUE)
    /\ RoomCall(RemovePlayer(TheRoom, heap, p), "removePlayer", p, "none")
    /\ UNCHANGED <<sock, listening, players, rooms, timers, now, misuse, nInputs>>
    /\ Emit(<<>>)

\* room.switchPlayerTeam(p.id, team)
RoomSwitchPlayerTeam(p, team) ==
    /\ Budget(TRUE)
    /\ RoomCall(SwitchPlayerTeam(TheRoom, heap, p, team), "switchPlayerTeam", p, team)
    /\ UNCHANGED <<sock, listening, players, rooms, timers, now, misuse, nInputs>>
    /\ Emit(<<>>)

\* room.updatePlayerInput(p.id, data)
RoomUpdatePlayerInput(p, data) ==
    /\ nInputs < MaxInputs
    /\ nInputs' = nInputs + 1
    /\ heap' = UpdatePlayerInput(TheRoom, heap, p, data, now)
    /\ UNCHANGED <<sock, listening, players, rooms, gameRooms, timers, now, misuse, calls, ret>>
    /\ Emit(<<>>)

\* room.updateGame(), once the clock has moved on
RoomUpdateGame ==
    /\ TheRoom.lastUpdate < now
    /\ \E u \in {UpdateGame(TheRoom, heap, now)} :
           /\ gameRooms' = [gameRooms EXCEPT ![1] = u.r]
           /\ heap' = u.h
    /\ UNCHANGED <<sock, listening, players, rooms, timers, now, misuse, nInputs, calls, ret>>
    /\ Emit(<<>>)

NextRoom ==
    \/ \E p \in Hands : RoomAddPlayer(p)
    \/ \E p \in Hands : RoomRemovePlayer(p)
    \/ \E p \in Hands, team \in Targets : RoomSwitchPlayerTeam(p, team)
    \/ \E p \in Members, data \in InputData : RoomUpdatePlayerInput(p, data)
    \/ RoomUpdateGame
    \/ AdvanceTime

SpecRoom == InitRoom /\ [][NextRoom]_vars

\* ---------------------------------------- a GameRoom's scheduler on its own
\* The room of InitRoom with its host; startGameLoop and stopGameLoop called
\* directly, the timers firing, the host's input arriving.
LoopState == IF TheRoom.gameLoopInterval # NoTimer THEN "running" ELSE "stopped"

\* room.startGameLoop(io); the record keeps what the room was at the call
RoomStartGameLoop ==
    /\ \E st \in {StartGameLoop(TheRoom, 1, timers, now)} :
           /\ gameRooms' = [gameRooms EXCEPT ![1] = st.r]
           /\ timers' = st.timers
    /\ ret' = [op |-> "startGameLoop", id |-> 0, arg |-> LoopState, ret |-> TRUE]
    /\ UNCHANGED <<sock, listening, players, rooms, heap, now, misuse, nInputs, calls>>
    /\ Emit(<<>>)

\* room.stopGameLoop()
RoomStopGameLoop ==
    /\ \E st \in {StopGameLoop(TheRoom, timers)} :
           /\ gameRooms' = [gameRooms EXCEPT ![1] = st.r]
           /\ timers' = st.timers
    /\ ret' = [op |-> "stopGameLoop", id |-> 0, arg |-> LoopState, ret |-> TRUE]
    /\ UNCHANGED <<sock, listening, players, rooms, heap, now, misuse, nInputs, calls>>
    /\ Emit(<<>>)

NextLoop ==
    \/ RoomStartGameLoop
    \/ RoomStopGameLoop
    \/ \E x \in timers : Tick(x)
    \/ Advance(MaxNowLoop)
    \/ \E p \in Members, data \in InputData : RoomUpdatePlayerInput(p, data)

SpecLoop == InitRoom /\ [][NextLoop]_vars

\* ------------------------------------------------------ a crowded lobby
\* The server once NCrowd sockets have connected and joined the game.  The
\* first of them creates the rooms, the others join a room one after the
\* other, and all of them switch teams.
Crowd == 1..NCrowd

CrowdAtStart(on) ==
    /\ sock = [s \in Crowd |-> "open"]
    /\ listening = TRUE
    /\ players = [s \in Crowd |-> <<s, 1>>]
    /\ rooms = <<>>
    /\ gameRooms = <<>>
    /\ heap = [o \in {<<s, 1>> : s \in Crowd} |-> NewPlayer(o[1], 0)]
    /\ timers = {}
    /\ now = 0
    /\ misuse = 0
    /\ nInputs = 0
    /\ calls = 0
    /\ ret = NoRet
    /\ emitted = Tap(on)
    /\ client = NoGame

InitCrowd == CrowdAtStart(FALSE)

CrowdCreateRoom(code) == HandleCreateRoom(1, code)

CrowdJoinRoom(s, code) ==
    /\ s > 1
    /\ ~InARoom(s)
    /\ \A q \in Crowd : q < s => InARoom(q)
    /\ HandleJoinRoom(s, code)

CrowdSwitchTeam(s, team) == HandleSwitchTeam(s, team)

NextCrowd ==
    \/ \E code \in Codes : CrowdCreateRoom(code)
    \/ \E s \in Crowd, code \in Codes : CrowdJoinRoom(s, code)
    \/ \E s \in Crowd, team \in Targets : CrowdSwitchTeam(s, team)

SpecCrowd == InitCrowd /\ [][NextCrowd]_vars

\* ============================================================ properties
RoomSlots == Range(rooms)
\* the Player objects of the room in slot sl that are on team
Roster(sl, team) == {o \in MapObjs(gameRooms[sl].players) : heap[o].team = team}

\* C1: in every room, redTeamCount is the number of its players whose team
\* is red and blueTeamCount the number of its players whose team is blue.
CountersMatchRoster ==
    \A sl \in RoomSlots :
        /\ gameRooms[sl].redTeamCount = Cardinality(Roster(sl, "red"))
        /\ gameRooms[sl].blueTeamCount = Cardinality(Roster(sl, "blue"))

\* C2: no room holds more than 4 players whose team is red, or more than 4
\* whose team is blue.
TeamsWithinCap ==
    \A sl \in RoomSlots :
        /\ Cardinality(Roster(sl, "red")) <= MaxTeamSize
        /\ Cardinality(Roster(sl, "blue")) <= MaxTeamSize

\* C3: a room never holds more than 10 players, and addPlayer on a room
\* that holds 10 returns false and changes neither the room nor the players.
RoomCapacity ==
    /\ [](Len(TheRoom.players) <= MaxPlayersDefault)
    /\ [][\A p \in Hands :
            (RoomAddPlayer(p) /\ Len(TheRoom.players) = MaxPlayersDefault)
            => (ret'.ret = FALSE /\ gameRooms' = gameRooms /\ heap' = heap)]_vars

\* C3, reached: the eleventh player was refused by a room of ten.
FullRoomRefused ==
    /\ Len(TheRoom.players) = MaxPlayersDefault
    /\ ret = [op |-> "addPlayer", id |-> NPlayers, arg |-> "none", ret |-> FALSE]
    /\ NPlayers \notin Members

\* C4: no Player object is in the player collections of two rooms.
OneRoomPerPlayer ==
    \A a, b \in RoomSlots :
        a # b => MapObjs(gameRooms[a].players) \cap MapObjs(gameRooms[b].players) = {}

\* C5: a registered room is never left empty, every active timer belongs to
\* a registered room, and only registered rooms tick.
TimersOfRegisteredRooms ==
    /\ [](/\ \A sl \in RoomSlots : Len(gameRooms[sl].players) > 0
          /\ \A x \in timers : x.room \in RoomSlots)
    /\ [][\A x \in timers : Tick(x) => x.room \in RoomSlots]_vars

\* C5, reached: a player is back in the lobby after leaving the room it had
\* created, the room is gone from the registry and its timer is cleared,
\* while the server is still up.
EmptiedRoomDeleted ==
    /\ listening
    /\ rooms = <<>>
    /\ timers = {}
    /\ gameRooms = <<>>
    /\ \E s \in Sockets : /\ sock[s] = "open"
                          /\ players[s] # NoObj
                          /\ heap[players[s]].team = "red"
                          /\ heap[players[s]].roomCode = NoCode

\* C6: once every socket that connected has disconnected, no player is left
\* in any room, the registry is empty and no timer is active.
AllGoneAllClean ==
    ((\A s \in Sockets : sock[s] # "open") /\ (\E s \in Sockets : sock[s] = "closed"))
    => (rooms = <<>> /\ timers = {} /\ gameRooms = <<>> /\ heap = <<>>)

\* C7: a room has at most one active timer, exactly one when the last call
\* was startGameLoop, and two ticks of it are at least an interval apart.
OneLoopPerRoom ==
    /\ [](/\ Cardinality(timers) <= 1
          /\ ret.op = "startGameLoop" => Cardinality(timers) = 1)
    /\ [][\A x \in timers : Tick(x) => TheRoom.lastUpdate + TickMs <= now]_vars

\* C7, reached: startGameLoop was called on a room whose loop was running,
\* and the room has ticked since.
RestartedLoop ==
    /\ ret = [op |-> "startGameLoop", id |-> 0, arg |-> "running", ret |-> TRUE]
    /\ Cardinality(timers) = 1
    /\ TheRoom.lastUpdate > 0
    /\ TheRoom.gameTime > 0

\* position and velocity of every Player object
Physical(h) == [o \in DOMAIN h |-> <<h[o].x, h[o].y, h[o].vx, h[o].vy>>]

\* C8: while the last call is stopGameLoop no timer is active and the game
\* state does not move; stopGameLoop on a stopped room changes nothing.
StoppedMeansStill ==
    /\ [](ret.op = "stopGameLoop" => timers = {})
    /\ [][(ret.op = "stopGameLoop" /\ ret'.op = "stopGameLoop")
          => (/\ gameRooms' = gameRooms
              /\ timers' = timers
              /\ Physical(heap') = Physical(heap))]_vars
    /\ [][(RoomStopGameLoop /\ LoopState = "stopped")
          => (gameRooms' = gameRooms /\ timers' = timers /\ heap' = heap)]_vars

\* C8, reached: the loop was stopped while running, after the room had
\* ticked, and more than an interval has passed since its last tick.
StoppedAfterTicks ==
    /\ ret = [op |-> "stopGameLoop", id |-> 0, arg |-> "running", ret |-> TRUE]
    /\ TheRoom.gameTime > 0
    /\ now >= TheRoom.lastUpdate + 2 * TickMs

\* the players of the room on its own that are on team
OnTeam(team) == {p \in Members : heap[players[p]].team = team}
Counters(r) == <<r.redTeamCount, r.blueTeamCount>>
Body(h, p) == <<h[players[p]].team, h[players[p]].x, h[players[p]].y,
                h[players[p]].vx, h[players[p]].vy>>
Refused(p) ==
    /\ ret'.ret = FALSE
    /\ Counters(TheRoom') = Counters(TheRoom)
    /\ Body(heap', p) = Body(heap, p)

SpectatorAlwaysAccepted ==
    [][\A p \in Members, team \in {"spectator", "null"} :
         RoomSwitchPlayerTeam(p, team)
         => (/\ ret'.ret = TRUE
             /\ heap'[players[p]].team = "none"
             /\ TheRoom'.redTeamCount = TheRoom.redTeamCount
                    - (IF heap[players[p]].team = "red" THEN 1 ELSE 0)
             /\ TheRoom'.blueTeamCount = TheRoom.blueTeamCount
                    - (IF heap[players[p]].team = "blue" THEN 1 ELSE 0))]_vars

\* C10, reached: a blue player of a room with both teams manned became a
\* spectator.
BlueBecameSpectator ==
    /\ ret.op = "switchPlayerTeam" /\ ret.arg = "spectator" /\ ret.ret = TRUE
    /\ ret.id \in OnTeam("none")
    /\ heap[players[ret.id]].x = 400 * Scale
    /\ TheRoom.redTeamCount = 2
    /\ TheRoom.blueTeamCount = 0
    /\ Cardinality(Members) = 3

\* the team autoAssignTeam is said to choose for a joiner of a room with
\* red and blue players on the two teams
Fewer(red, blue) ==
    IF red < MaxTeamSize /\ red <= blue THEN "red"
    ELSE IF blue < MaxTeamSize THEN "blue"
    ELSE "none"

\* C11: a player who joins the room is put on the team with fewer members
\* if that team has fewer than 4 (red on ties), otherwise on the other team
\* if it has fewer than 4, otherwise made a spectator with both counters
\* unchanged.
JoinerToSmallerTeam ==
    [][\A p \in Hands \ Members :
         (RoomAddPlayer(p) /\ ret'.ret = TRUE)
         => LET red  == Cardinality(OnTeam("red"))
                blue == Cardinality(OnTeam("blue"))
            IN  /\ heap'[players[p]].team = Fewer(red, blue)
                /\ Fewer(red, blue) = "none"
                       => Counters(TheRoom') = Counters(TheRoom)]_vars

\* ------------------------------------------------- checkGoal on its own
\* physics.checkGoal(ball) called once on the room's ball, for balls on and
\* next to the goal lines, the ends of the goal span and the walls.
Near == {-1, 0, 1}
GoalXs == {x + d : x \in {0, FieldWidth * Scale}, d \in Near}
              \cup {-BallRadius * Scale, 400 * Scale, (FieldWidth + BallRadius) * Scale}
GoalYs == {y + d : y \in {GoalTop, GoalBottom}, d \in Near}
              \cup {BallRadius * Scale, 200 * Scale, (FieldHeight - BallRadius) * Scale}

InitGoal ==
    \E x \in GoalXs, y \in GoalYs :
        LET h0 == [o \in {<<p, 1>> : p \in Hands} |-> NewPlayer(o[1], 0)]
            g  == AddPlayer(EmptyRoom(Code(0), 0), h0, <<1, 1>>)
        IN  /\ sock = [s \in Sockets |-> "new"]
            /\ listening = FALSE
            /\ players = [p \in Hands |-> <<p, 1>>]
            /\ rooms = MapPut(<<>>, Code(0), 1)
            /\ gameRooms = MapPut(<<>>, 1, [g.r EXCEPT !.ball.x = x, !.ball.y = y])
            /\ heap = g.h
            /\ timers = {}
            /\ now = 0
            /\ misuse = 0
            /\ nInputs = 0
            /\ calls = 0
            /\ ret = NoRet
            /\ emitted = Tap(FALSE)
            /\ client = NoGame

\* room.physics.checkGoal(room.gameState.ball)
RoomCheckGoal ==
    /\ ret.op = "none"
    /\ \E goalScored \in {CheckGoal(TheRoom.ball)} :
           ret' = [op |-> "checkGoal", id |-> 0, arg |-> goalScored,
                   ret |-> goalScored # "none"]
    /\ UNCHANGED <<sock, listening, players, rooms, gameRooms, heap, timers, now, misuse, nInputs, calls>>
    /\ Emit(<<>>)

NextGoal == RoomCheckGoal

SpecGoal == InitGoal /\ [][NextGoal]_vars

LeftDownInput == [NoInput EXCEPT !.left = TRUE, !.down = TRUE]
\* the keys a player of the match holds when it holds any: the host runs
\* right, every other player runs left and down
MatchKeys(p) == IF p = 1 THEN RightInput ELSE LeftDownInput

InitMatch == RoomAtStart(TRUE)

\* nobody sends anything for as long as a player counts as active
MatchWait ==
    /\ timers = {}
    /\ now = 0
    /\ now' = ActiveMs
    /\ UNCHANGED <<sock, listening, players, rooms, gameRooms, heap, timers, misuse, nInputs, calls, ret>>
    /\ Emit(<<>>)

MatchJoin(p) ==
    /\ TheRoom.gameTime = 0
    /\ Cardinality(Members) < MaxSquad
    /\ p \notin Members
    /\ RoomAddPlayer(p)

MatchStart == LoopState = "stopped" /\ RoomStartGameLoop

\* the clock reaches the time a timer is due and the timer fires
MatchTick(x) ==
    /\ x \in timers
    /\ now < x.due
    /\ TheRoom.gameTime < MaxTicks * TickMs
    /\ now' = x.due
    /\ Fire(x, x.due)
    /\ UNCHANGED <<sock, listening, misuse, nInputs, calls, ret>>

\* room.updatePlayerInput(p.id, keys): the keys held at the kickoff, and
\* later the first key press of a player who held none
MatchInput(p) ==
    /\ timers # {}
    /\ IF TheRoom.gameTime = 0 /\ now = TheRoom.lastUpdate
       THEN UNCHANGED nInputs
       ELSE /\ heap[players[p]].input = NoInput
            /\ nInputs < MaxInputs
            /\ nInputs' = nInputs + 1
    /\ heap' = UpdatePlayerInput(TheRoom, heap, p, MatchKeys(p), now)
    /\ UNCHANGED <<sock, listening, players, rooms, gameRooms, timers, now, misuse, calls, ret>>
    /\ Emit(<<>>)

NextMatch ==
    \/ MatchWait
    \/ \E p \in Hands : MatchJoin(p)
    \/ MatchStart
    \/ \E x \in timers : MatchTick(x)
    \/ \E p \in Members : MatchInput(p)

SpecMatch == InitMatch /\ [][NextMatch]_vars

\* what the goal check of the tick of timer x finds
GoalFound(x) == CheckGoal(MoveAndCollide(gameRooms[x.room], heap, x.due).r.ball)
Kickoff(team) == <<team, (IF team = "red" THEN 100 ELSE 700) * Scale, 200 * Scale, 0, 0>>

\* C13: a tick whose goal check finds a goal adds exactly 1 to the score of
\* the team that scored and leaves the other team's score alone; a tick
\* whose goal check finds none leaves both scores alone.
OnePointPerGoal ==
    [][\A x \in timers :
         MatchTick(x)
         => \A goal \in {GoalFound(x)} :
              /\ goal = "none" => TheRoom'.score = TheRoom.score
              /\ goal = "red" => TheRoom'.score = [TheRoom.score EXCEPT !.red = @ + 1]
              /\ goal = "blue" => TheRoom'.score = [TheRoom.score EXCEPT !.blue = @ + 1]
              /\ (TheRoom'.score.red + TheRoom'.score.blue)
                 - (TheRoom.score.red + TheRoom.score.blue) \in {0, 1}]_vars

\* C13, reached: the host alone has pushed the ball from the centre into
\* the right goal, and the tick that found the goal has made it 1:0.
HostScored ==
    /\ Members = {1}
    /\ TheRoom.score = [red |-> 1, blue |-> 0]
    /\ TheRoom.gameTime > 0
    /\ TheRoom.lastUpdate = now
    /\ TheRoom.ball = [x |-> 400 * Scale, y |-> 200 * Scale, vx |-> 0, vy |-> 0]
    /\ emitted.msgs # <<>>

\* C14: after a tick whose goal check found a goal the ball is at (400,200)
\* at rest, every red player of the room is at (100,200) and every blue
\* player at (700,200), all at rest.
KickoffAfterGoal ==
    [][\A x \in timers :
         (MatchTick(x) /\ GoalFound(x) # "none")
         => /\ TheRoom'.ball = [x |-> 400 * Scale, y |-> 200 * Scale, vx |-> 0, vy |-> 0]
            /\ \A p \in Members, team \in {"red", "blue"} :
                 heap[players[p]].team = team => Body(heap', p) = Kickoff(team)]_vars

\* C14, reached: a goal was scored while a red and a blue player were
\* running, and the tick has put both back on their kickoff positions at
\* rest; their keys are still down.
BothBackAfterGoal ==
    /\ Members = {1, 2}
    /\ TheRoom.score = [red |-> 1, blue |-> 0]
    /\ TheRoom.lastUpdate = now
    /\ emitted.msgs # <<>>
    /\ heap[players[1]].input = RightInput
    /\ heap[players[2]].input = LeftDownInput
    /\ Body(heap, 1) = Kickoff("red")
    /\ Body(heap, 2) = Kickoff("blue")

\* ------------------------------------------------------------- a season
\* The room and its host from the construction on: the loop is started, the
\* host holds its keys from a kickoff or holds none, the timer fires on time
\* until the clock reaches MaxTicks ticks, a roster call on one of the first
\* MaxSquad players arrives at any moment, and resetGame is called at any
\* moment once a goal has been scored.
Squad == 1..MaxSquad
NoScore == [red |-> 0, blue |-> 0]

SeasonKickoff ==
    /\ TheRoom.gameTime = 0
    /\ now = TheRoom.lastUpdate
    /\ MatchInput(1)

SeasonTick(x) ==
    /\ now < MaxTicks * TickMs
    /\ MatchTick(x)

\* room.addPlayer(p), of a member or not
SeasonAdd(p) ==
    /\ Budget(TRUE)
    /\ RoomCall(AddPlayer(TheRoom, heap, players[p]), "addPlayer", p, "none")
    /\ UNCHANGED <<sock, listening, players, rooms, timers, now, misuse, nInputs>>
    /\ Emit(<<>>)

\* room.resetGame()
RoomResetGame ==
    /\ TheRoom.score # NoScore
    /\ RoomCall(ResetGame(TheRoom, heap), "resetGame", 0, "none")
    /\ UNCHANGED <<sock, listening, players, rooms, timers, now, misuse, nInputs, calls>>
    /\ Emit(<<>>)

NextSeason ==
    \/ MatchStart
    \/ SeasonKickoff
    \/ \E x \in timers : SeasonTick(x)
    \/ \E p \in Squad : SeasonAdd(p)
    \/ \E p \in Squad : RoomRemovePlayer(p)
    \/ \E p \in Squad, team \in Targets : RoomSwitchPlayerTeam(p, team)
    \/ RoomResetGame

SpecSeason == InitRoom /\ [][NextSeason]_vars

\* C15: no step of a season takes a point from a team, whether it is a tick
\* or adds, removes or switches a player, except a call of resetGame, and
\* that call leaves the score at 0:0.
ScoreOnlyGrows ==
    [][IF RoomResetGame
       THEN TheRoom'.score = NoScore
       ELSE /\ TheRoom'.score.red >= TheRoom.score.red
            /\ TheRoom'.score.blue >= TheRoom.score.blue]_vars

\* C15, reached: in a season in which a player has switched teams and a
\* goal has been scored, resetGame has set the score back to 0:0.
ResetAfterGoalAndSwitch ==
    /\ ret.op = "resetGame"
    /\ calls = MaxCalls
    /\ TheRoom.score = NoScore
    /\ TheRoom.gameTime = 0
    /\ TheRoom.lastUpdate > 0
    /\ \E p \in Members : heap[players[p]].team # (IF p = 1 THEN "red" ELSE "blue")

\* ---------------------------------------------------------- a kicked ball
\* The room and its host with the ball at (50,200) moving left at 6 per
\* frame.  The loop is started, the host holds its keys from the kickoff or
\* holds none, and the timer fires on time or up to MaxLate ms late.
KickedBall == [x |-> 50 * Scale, y |-> 200 * Scale, vx |-> -6 * Scale, vy |-> 0]

InitKick ==
    LET h0 == [o \in {<<p, 1>> : p \in Hands} |-> NewPlayer(o[1], 0)]
        g  == AddPlayer(EmptyRoom(Code(0), 0), h0, <<1, 1>>)
    IN  /\ sock = [s \in Sockets |-> "new"]
        /\ listening = FALSE
        /\ players = [p \in Hands |-> <<p, 1>>]
        /\ rooms = MapPut(<<>>, Code(0), 1)
        /\ gameRooms = MapPut(<<>>, 1, [g.r EXCEPT !.ball = KickedBall])
        /\ heap = g.h
        /\ timers = {}
        /\ now = 0
        /\ misuse = 0
        /\ nInputs = 0
        /\ calls = 0
        /\ ret = NoRet
        /\ emitted = Tap(TRUE)
        /\ client = NoGame

\* the timer fires, late ms after it is due
KickTick(x, late) ==
    /\ x \in timers
    /\ now < x.due
    /\ TheRoom.gameTime < KickTicks * TickMs
    /\ now' = x.due + late
    /\ Fire(x, x.due + late)
    /\ UNCHANGED <<sock, listening, misuse, nInputs, calls, ret>>

KickTicking == \E x \in timers, late \in 0..MaxLate : KickTick(x, late)

NextKick ==
    \/ MatchStart
    \/ SeasonKickoff
    \/ KickTicking

SpecKick == InitKick /\ [][NextKick]_vars

\* setInterval keeps firing the callback of a running loop
SpecKickLive == SpecKick /\ WF_vars(KickTicking)

InField(e) ==
    /\ e.y >= 0
    /\ e.y <= FieldHeight * Scale
    /\ IF e.y >= GoalTop /\ e.y <= GoalBottom
       THEN e.x >= -(GoalDepth * Scale) /\ e.x <= (FieldWidth + GoalDepth) * Scale
       ELSE e.x >= 0 /\ e.x <= FieldWidth * Scale

\* C17: at every moment of a match, and so after every tick, the centre of
\* the ball and of every player of the room, active or not, is inside
\* [0,800] x [0,400], or up to 20 outside it to the left or right while its
\* y is inside [160,240].
EntitiesInField ==
    /\ InField(TheRoom.ball)
    /\ \A p \in Members : InField(heap[players[p]])

SpeedSquared(e) == e.vx * e.vx + e.vy * e.vy

\* C18: at every moment of a match, and so after every tick, the speed of
\* every player of the room is at most maxSpeed = 5, whether it collided
\* in the tick or not and whether it is active or not.
PlayersWithinMaxSpeed ==
    \A p \in Members :
        SpeedSquared(heap[players[p]]) <= (MaxSpeed * Scale) * (MaxSpeed * Scale)

\* ---------------------------------------------------------------- the wire
\* The server once its sockets have connected and joined the game, with the
\* tap on: the sockets create, join and leave rooms and switch teams, and
\* the timers of the rooms fire on time until the clock reaches MaxNow.
WireAtStart(on) ==
    /\ sock = [s \in Sockets |-> "open"]
    /\ listening = TRUE
    /\ players = [s \in Sockets |-> <<s, 1>>]
    /\ rooms = <<>>
    /\ gameRooms = <<>>
    /\ heap = [o \in {<<s, 1>> : s \in Sockets} |-> NewPlayer(o[1], 0)]
    /\ timers = {}
    /\ now = 0
    /\ misuse = 0
    /\ nInputs = 0
    /\ calls = 0
    /\ ret = NoRet
    /\ emitted = Tap(on)
    /\ client = NoGame

InitWire == WireAtStart(TRUE)

\* the clock reaches the time a timer is due and the timer fires
WireTick(x) ==
    /\ x \in timers
    /\ now <= x.due
    /\ x.due <= MaxNow
    /\ \A y \in timers : y.due >= x.due
    /\ now' = x.due
    /\ Fire(x, x.due)
    /\ UNCHANGED <<sock, listening, misuse, nInputs, calls, ret>>

NextWire ==
    \/ \E s \in Sockets, code \in Codes : HandleCreateRoom(s, code)
    \/ \E s \in Sockets, code \in Codes : HandleJoinRoom(s, code)
    \/ \E s \in Sockets : HandleLeaveRoom(s)
    \/ \E s \in Sockets, team \in Targets : HandleSwitchTeam(s, team)
    \/ \E x \in timers : WireTick(x)

SpecWire == InitWire /\ [][NextWire]_vars

\* C19: a step in which the timer of a room fires emits exactly one
\* 'gameState' message, to the room, with the snapshot of the room as the
\* tick's update left it; no other step emits a 'gameState' message.
SnapshotsOnlyByTicks ==
    [][/\ \A x \in timers :
            WireTick(x)
            => emitted'.msgs = <<ToRoom(gameRooms'[x.room].code,
                                        GetGameState(gameRooms'[x.room], heap'))>>
       /\ (~ \E x \in timers : WireTick(x)) => emitted'.msgs = <<>>]_vars

\* 0.005, and the fields of a body that a snapshot rounds
HalfCent == Scale \div 200
Rounded == {"x", "y", "vx", "vy"}
OffBy(sent, true) == [f \in Rounded |-> sent[f] - true[f]]

\* C20: in every 'gameState' message the x, y, vx and vy of the ball and of
\* every player differ from the values the room holds when the message is
\* emitted by at most 0.005.
SnapshotWithinHalfCent ==
    \A i \in DOMAIN emitted.msgs :
        \A data \in {emitted.msgs[i].data} :
            /\ \A f \in Rounded : Abs(OffBy(data.ball, TheRoom.ball)[f]) <= HalfCent
            /\ \A k \in DOMAIN data.players :
                 \A f \in Rounded :
                    Abs(OffBy(data.players[k], heap[TheRoom.players[k].obj])[f]) <= HalfCent

\* C20, reached: a tick has emitted a snapshot in which the negative vx of
\* a running player was rounded by exactly 0.005, and its y and the x of
\* the moving ball were rounded too.
SnapshotRoundedByHalfCent ==
    /\ emitted.msgs # <<>>
    /\ TheRoom.ball.vx # 0
    /\ OffBy(emitted.msgs[1].data.ball, TheRoom.ball).x # 0
    /\ \E k \in DOMAIN TheRoom.players :
         \E off \in {OffBy(emitted.msgs[1].data.players[k], heap[TheRoom.players[k].obj])} :
            /\ heap[TheRoom.players[k].obj].vx < 0
            /\ off.vx = HalfCent
            /\ off.y # 0

\* -------------------------------------------------------------- the pads
\* The server once its sockets have connected and joined the game: the
\* sockets join the game again, create, join and leave rooms and send
\* playerInput events with any payload, and the timers of the rooms fire on
\* time until the clock reaches MaxNow.
InitPad == WireAtStart(FALSE)

PadTick(x) ==
    /\ x \in timers
    /\ now <= x.due
    /\ x.due <= MaxNow
    /\ \A y \in timers : y.due >= x.due
    /\ now' = x.due
    /\ Fire(x, x.due)
    /\ UNCHANGED <<sock, listening, misuse, nInputs, calls, ret>>

NextPad ==
    \/ \E s \in Sockets : HandleJoinGame(s, TRUE)
    \/ \E s \in Sockets, code \in Codes : HandleCreateRoom(s, code)
    \/ \E s \in Sockets, code \in Codes : HandleJoinRoom(s, code)
    \/ \E s \in Sockets : HandleLeaveRoom(s)
    \/ \E s \in Sockets, data \in InputData : HandlePlayerInput(s, data)
    \/ \E x \in timers : PadTick(x)

SpecPad == InitPad /\ [][NextPad]_vars

\* the payloads without a directional flag set: null, a number, a string,
\* an object without flags
Flagless == {Malformed, NoInput}

\* C21: a playerInput event whose payload is missing, null, not an object
\* or without flags leaves its player with an input whose flags all read
\* false; no timer is ever about to read the flags of a null input, so no
\* tick stalls; and a tick leaves a player at rest whose input has no flag
\* set, and who is alone in the room, where it is, at rest.
FlaglessInputIsNoMovement ==
    [][/\ \A s \in Sockets, data \in Flagless :
            (HandlePlayerInput(s, data) /\ nInputs' # nInputs)
            => heap'[players[s]].input = NoInput
       /\ \A x \in timers' : Unreadable(gameRooms'[x.room], heap', x.due) = {}
       /\ \A x \in timers :
            (PadTick(x) /\ Len(gameRooms[x.room].players) = 1)
            => \A i \in 1..Len(gameRooms[x.room].players) :
                 \A o \in {gameRooms[x.room].players[i].obj} :
                    (heap[o].input = NoInput /\ heap[o].vx = 0 /\ heap[o].vy = 0)
                    => heap'[o] = heap[o]]_vars

\* C21, reached: the one playerInput event that reached a room came before
\* the tick of that room and left no flag set on any player, and the tick
\* of a room with one player has run.
TickedAfterFlaglessInput ==
    /\ nInputs = 1
    /\ now = TickMs
    /\ \A s \in Sockets : players[s] = <<s, 1>>
    /\ \A o \in DOMAIN heap : heap[o].input = NoInput /\ heap[o].lastSeen = 0
    /\ \E s \in Sockets :
         /\ InARoom(s)
         /\ heap[players[s]].roomCode \in DOMAIN rooms
         /\ gameRooms[rooms[heap[players[s]].roomCode]].gameTime = TickMs
         /\ Len(gameRooms[rooms[heap[players[s]].roomCode]].players) = 1

\* ------------------------------------------------------------- a fault
\* The interval callback calls updateGame and broadcastGameState with no
\* try/catch around them, and the server installs no 'uncaughtException'
\* handler: an exception thrown anywhere inside the callback leaves it,
\* and Node ends the process.  With the process end all its timers and
\* sockets.  What raises the exception is left open.
TickThrows(x) ==
    /\ x \in timers
    /\ now <= x.due
    /\ x.due <= MaxNow
    /\ \A y \in timers : y.due >= x.due
    /\ now' = x.due
    /\ timers' = {}
    /\ listening' = FALSE
    /\ sock' = [s \in DOMAIN sock |-> "closed"]
    /\ UNCHANGED <<players, rooms, gameRooms, heap, misuse, nInputs, calls, ret>>
    /\ Emit(<<>>)

NextFault ==
    \/ NextPad
    \/ \E x \in timers : TickThrows(x)

SpecFault == InitPad /\ [][NextFault]_vars

\* C22: after a tick of a room in which a fault was raised, the timer of
\* that room and the timer of every other room are still scheduled, so
\* that their later ticks run.
FaultStopsNoScheduler ==
    [][\A x \in timers :
         TickThrows(x)
         => \A y \in timers : \E z \in timers' : z.id = y.id /\ z.room = y.room]_vars

\* ------------------------------------------------------------- the desk
\* The server with as many sockets in the game as a room holds, and one
\* more socket that has connected and never joined the game (the
\* stranger).  The first socket creates a room, the others join it one
\* after the other, and every socket sends the requests the server
\* rejects.  The tap is on.
Stranger == MaxPlayersDefault + 1
Desk == 1..Stranger

InitDesk ==
    /\ sock = [s \in Desk |-> "open"]
    /\ listening = TRUE
    /\ players = [s \in Desk |-> IF s = Stranger THEN NoObj ELSE <<s, 1>>]
    /\ rooms = <<>>
    /\ gameRooms = <<>>
    /\ heap = [o \in {<<s, 1>> : s \in Desk \ {Stranger}} |-> NewPlayer(o[1], 0)]
    /\ timers = {}
    /\ now = 0
    /\ misuse = 0
    /\ nInputs = 0
    /\ calls = 0
    /\ ret = NoRet
    /\ emitted = Tap(TRUE)
    /\ client = NoGame

\* the replies of handleJoinRoom that turn the request down
JoinErrors(s, code) ==
    {m \in {"Player not found", "Room not found", "Room is full"} :
        \/ m = "Player not found" /\ players[s] = NoObj
        \/ m = "Room not found" /\ code \notin DOMAIN rooms
        \/ /\ m = "Room is full"
           /\ code \in DOMAIN rooms
           /\ Len(gameRooms[rooms[code]].players) >= MaxPlayersDefault}

DeskCreateRoom(s, code) ==
    /\ players[s] = NoObj \/ (s = 1 /\ ~InARoom(s))
    /\ HandleCreateRoom(s, code)

DeskJoinRoom(s, code) ==
    /\ \/ JoinErrors(s, code) # {}
       \/ /\ s > 1
          /\ ~InARoom(s)
          /\ \A q \in Desk : q < s => InARoom(q)
    /\ HandleJoinRoom(s, code)

NextDesk ==
    \/ \E s \in Desk, code \in Codes : DeskCreateRoom(s, code)
    \/ \E s \in Desk, code \in Codes : DeskJoinRoom(s, code)

SpecDesk == InitDesk /\ [][NextDesk]_vars

\* C23: a joinRoom for a code the registry does not hold, a joinRoom for a
\* room that holds 10 players, and a createRoom or joinRoom of a socket
\* without a player each send one error to the caller, naming a reason
\* that applies, and leave the registry, the rooms with their players and
\* counters, the players with their roomCode and the timers as they were.
RejectedChangesNothing ==
    [][\A s \in Desk, code \in Codes :
         /\ (HandleJoinRoom(s, code) /\ JoinErrors(s, code) # {})
            => /\ \E m \in JoinErrors(s, code) : emitted'.errors = <<Error(s, m)>>
               /\ emitted'.msgs = <<>>
               /\ UNCHANGED <<players, rooms, gameRooms, heap, timers>>
         /\ (HandleCreateRoom(s, code) /\ players[s] = NoObj)
            => /\ emitted'.errors = <<Error(s, "Player not found")>>
               /\ emitted'.msgs = <<>>
               /\ UNCHANGED <<players, rooms, gameRooms, heap, timers>>]_vars

\* C23, reached: a member of a room that holds 10 players has asked to
\* join it and was told that the room is full.
FullRoomTurnedMemberDown ==
    \E s \in Desk :
        /\ emitted.errors = <<Error(s, "Room is full")>>
        /\ InARoom(s)
        /\ Len(gameRooms[rooms[heap[players[s]].roomCode]].players) = MaxPlayersDefault

\* ------------------------------------------ resolveCollision on its own
\* physics.resolveCollision called once on the host of a room and the
\* room's ball, which overlap, in either order of the two and with the
\* masses 1 and 0.5 that checkCollisions passes, given by their inverses.
\* The host is at the centre spot; the ball is drawn around it, with the
\* same centre, one unit off, on a 3-4-5 normal, near the rim; the
\* velocities are head-on, apart, and nearly along the tangent.
BumpOffsets ==
    {<<0, 0>>, <<1, 0>>, <<12000, 16000>>, <<-12000, 16000>>, <<0, -24999>>,
     <<7123, -3456>>, <<-17000, -17000>>, <<20000, 0>>}
BumpPlayerVs == {<<0, 0>>, <<5000, 0>>, <<-4000, 2995>>, <<1234, -4321>>}
BumpBallVs ==
    {<<0, 0>>, <<-5000, 0>>, <<3000, 3000>>, <<-777, 4999>>, <<4000, -2995>>, <<4000, 2995>>}
InverseMasses == {1, 2}

InitBump ==
    \E d \in BumpOffsets, v \in BumpPlayerVs, w \in BumpBallVs :
        LET h0 == [o \in {<<p, 1>> : p \in Hands} |-> NewPlayer(o[1], 0)]
            g  == AddPlayer(EmptyRoom(Code(0), 0), h0, <<1, 1>>)
        IN  /\ sock = [s \in Sockets |-> "new"]
            /\ listening = FALSE
            /\ players = [p \in Hands |-> <<p, 1>>]
            /\ rooms = MapPut(<<>>, Code(0), 1)
            /\ gameRooms = MapPut(<<>>, 1,
                   [g.r EXCEPT !.ball = [x |-> 400 * Scale + d[1], y |-> 200 * Scale + d[2],
                                        vx |-> w[1], vy |-> w[2]]])
            /\ heap = [g.h EXCEPT ![<<1, 1>>].x = 400 * Scale, ![<<1, 1>>].y = 200 * Scale,
                                  ![<<1, 1>>].vx = v[1], ![<<1, 1>>].vy = v[2]]
            /\ timers = {}
            /\ now = 0
            /\ misuse = 0
            /\ nInputs = 0
            /\ calls = 0
            /\ ret = NoRet
            /\ emitted = Tap(FALSE)
            /\ client = NoGame

TheHost == heap[<<1, 1>>]

\* physics.resolveCollision(host, ball, 15, 10, mass1, mass2)
BumpPlayerBall(inv1, inv2) ==
    /\ ret.op = "none"
    /\ CheckCollision(TheHost, TheRoom.ball, PlayerRadius * Scale, BallRadius * Scale)
    /\ \E res \in {ResolveCollision(TheHost, TheRoom.ball, PlayerRadius * Scale,
                                     BallRadius * Scale, inv1, inv2)} :
           /\ heap' = [heap EXCEPT ![<<1, 1>>] = res[1]]
           /\ gameRooms' = [gameRooms EXCEPT ![1].ball = res[2]]
    /\ ret' = [op |-> "resolveCollision", id |-> 0, arg |-> "player, ball", ret |-> FALSE]
    /\ UNCHANGED <<sock, listening, players, rooms, timers, now, misuse, nInputs, calls>>
    /\ Emit(<<>>)

\* physics.resolveCollision(ball, host, 10, 15, mass1, mass2)
BumpBallPlayer(inv1, inv2) ==
    /\ ret.op = "none"
    /\ CheckCollision(TheRoom.ball, TheHost, BallRadius * Scale, PlayerRadius * Scale)
    /\ \E res \in {ResolveCollision(TheRoom.ball, TheHost, BallRadius * Scale,
                                     PlayerRadius * Scale, inv1, inv2)} :
           /\ gameRooms' = [gameRooms EXCEPT ![1].ball = res[1]]
           /\ heap' = [heap EXCEPT ![<<1, 1>>] = res[2]]
    /\ ret' = [op |-> "resolveCollision", id |-> 0, arg |-> "ball, player", ret |-> FALSE]
    /\ UNCHANGED <<sock, listening, players, rooms, timers, now, misuse, nInputs, calls>>
    /\ Emit(<<>>)

NextBump ==
    \/ \E inv1, inv2 \in InverseMasses : BumpPlayerBall(inv1, inv2)
    \/ \E inv1, inv2 \in InverseMasses : BumpBallPlayer(inv1, inv2)

SpecBump == InitBump /\ [][NextBump]_vars

\* mass1 * v1 + mass2 * v2 on one axis and mass1 * |v1|^2 + mass2 * |v2|^2,
\* both times the product of the inverse masses
Momentum(v1, v2, inv1, inv2) == inv2 * v1 + inv1 * v2
TwiceEnergy(a, b, inv1, inv2) ==
    inv2 * (a.vx * a.vx + a.vy * a.vy) + inv1 * (b.vx * b.vx + b.vy * b.vy)
\* the most that cutting the impulse to a whole number of units on each
\* axis adds to TwiceEnergy
ImpulseRounding(a, b, inv1, inv2) ==
    2 * inv1 * inv2 * (Abs(b.vx - a.vx) + Abs(b.vy - a.vy))

Conserves(a, b, a2, b2, inv1, inv2) ==
    /\ Momentum(a2.vx, b2.vx, inv1, inv2) = Momentum(a.vx, b.vx, inv1, inv2)
    /\ Momentum(a2.vy, b2.vy, inv1, inv2) = Momentum(a.vy, b.vy, inv1, inv2)
    /\ TwiceEnergy(a2, b2, inv1, inv2)
          <= TwiceEnergy(a, b, inv1, inv2) + ImpulseRounding(a, b, inv1, inv2)

\* C24: resolveCollision on two overlapping bodies, in either order of the
\* two and for either mass of each, leaves the total momentum on each axis
\* as it was and does not raise the total kinetic energy, up to the cut of
\* the impulse to the arithmetic's unit.
CollisionConservesMomentum ==
    [][\A inv1, inv2 \in InverseMasses :
         /\ BumpPlayerBall(inv1, inv2)
            => Conserves(TheHost, TheRoom.ball, TheHost', TheRoom.ball', inv1, inv2)
         /\ BumpBallPlayer(inv1, inv2)
            => Conserves(TheRoom.ball, TheHost, TheRoom.ball', TheHost', inv1, inv2)]_vars

\* C24, reached: the host, of mass 1 and running right at full speed, has
\* met the ball, of mass 0.5 and coming at it as fast, head-on; the host
\* now backs off and the ball flies right.
HeadOnBounce ==
    /\ ret.op = "resolveCollision"
    /\ ret.arg = "player, ball"
    /\ TheHost.x = 397500 /\ TheHost.y = 200 * Scale
    /\ TheHost.vx = -1000 /\ TheHost.vy = 0
    /\ TheRoom.ball.x = 422500 /\ TheRoom.ball.y = 200 * Scale
    /\ TheRoom.ball.vx = 7000 /\ TheRoom.ball.vy = 0

\* C25: the code of a room that handleCreateRoom creates is 6 characters of
\* the generator's alphabet and is the code of no room that the registry
\* holds at that moment; the registry keeps every room it held, under its
\* code and as it was.
CreatedCodeIsFresh ==
    [][\A s \in Sockets, code \in Codes :
         (HandleCreateRoom(s, code) /\ players[s] # NoObj)
         => /\ Len(code) = 6
            /\ \A i \in 1..Len(code) : code[i] \in 0..(CharsLength - 1)
            /\ code \notin DOMAIN rooms
            /\ code \in DOMAIN rooms'
            /\ gameRooms'[rooms'[code]].code = code
            /\ \A c \in DOMAIN rooms :
                  /\ c \in DOMAIN rooms'
                  /\ rooms'[c] = rooms[c]
                  /\ gameRooms'[rooms[c]] = gameRooms[rooms[c]]]_vars

\* C25, reached: a second room was created while the first was live, and
\* the registry holds both, each under its own code.
TwoRoomsTwoCodes ==
    /\ DOMAIN rooms = Codes
    /\ \A c \in Codes : gameRooms[rooms[c]].code = c
    /\ \A c, d \in Codes : c # d => rooms[c] # rooms[d]
    /\ \A s \in Sockets : InARoom(s)

\* ------------------------------------------------------------ the pitch
\* A room of three: the host, on red, the second player, on blue, and a
\* third player who switched to the spectators.  The loop is started at
\* once or after nobody has sent anything for ActiveMs; at the kickoff
\* nobody, the second player alone or all three hold their keys: the host
\* runs right, the second player runs left, the spectator holds down.  A
\* host that runs right may turn up and right within its first PressBy
\* ticks.  The ball lies on the centre spot, or flies at the host, at the
\* spectator, or into the left goal.  The timer fires on time.
PitchTicks == 300     \* ticks on the pitch
PressBy == 40         \* the last tick before which the host may turn

PitchBalls ==
    {[x |-> 400 * Scale, y |-> 200 * Scale, vx |-> 0, vy |-> 0],
     [x |-> 150 * Scale, y |-> 200 * Scale, vx |-> -6 * Scale, vy |-> 0],
     [x |-> 400 * Scale, y |-> 80 * Scale, vx |-> 0, vy |-> -6 * Scale],
     KickedBall}
LeftInput == [NoInput EXCEPT !.left = TRUE]
DownInput == [NoInput EXCEPT !.down = TRUE]
UpRightInput == [NoInput EXCEPT !.up = TRUE, !.right = TRUE]
PitchKeys(p) == IF p = 1 THEN RightInput ELSE IF p = 2 THEN LeftInput ELSE DownInput
Squads == {{}, {2}, {1, 2, 3}}

RECURSIVE SendKeys(_, _, _, _)
\* room.updatePlayerInput(p.id, PitchKeys(p)) for every p of `senders`
SendKeys(r, h, senders, t) ==
    IF senders = {} THEN h
    ELSE LET p == Min(senders)
         IN  SendKeys(r, UpdatePlayerInput(r, h, p, PitchKeys(p), t), senders \ {p}, t)

InitPitch ==
    \E ball \in PitchBalls, start \in {0, ActiveMs}, senders \in Squads :
        LET h0 == [o \in {<<p, 1>> : p \in Hands} |-> NewPlayer(o[1], 0)]
            g1 == AddPlayer(EmptyRoom(Code(0), 0), h0, <<1, 1>>)
            g2 == AddPlayer(g1.r, g1.h, <<2, 1>>)
            g3 == AddPlayer(g2.r, g2.h, <<3, 1>>)
            g4 == SwitchPlayerTeam(g3.r, g3.h, 3, "spectator")
            st == StartGameLoop([g4.r EXCEPT !.ball = ball], 1, {}, start)
        IN  /\ sock = [s \in Sockets |-> "new"]
            /\ listening = FALSE
            /\ players = [p \in Hands |-> <<p, 1>>]
            /\ rooms = MapPut(<<>>, Code(0), 1)
            /\ gameRooms = MapPut(<<>>, 1, st.r)
            /\ heap = SendKeys(st.r, g4.h, senders, start)
            /\ timers = st.timers
            /\ now = start
            /\ misuse = 0
            /\ nInputs = 0
            /\ calls = 0
            /\ ret = NoRet
            /\ emitted = Tap(FALSE)
            /\ client = NoGame

\* the clock reaches the time the timer is due and the timer fires
PitchTick(x) ==
    /\ x \in timers
    /\ now < x.due
    /\ TheRoom.gameTime < PitchTicks * TickMs
    /\ now' = x.due
    /\ Fire(x, x.due)
    /\ UNCHANGED <<sock, listening, misuse, nInputs, calls, ret>>

\* room.updatePlayerInput(host.id, { up, right }) of a host that runs right
PitchTurn ==
    /\ TheHost.input = RightInput
    /\ TheRoom.gameTime < PressBy * TickMs
    /\ nInputs < MaxInputs
    /\ nInputs' = nInputs + 1
    /\ heap' = UpdatePlayerInput(TheRoom, heap, 1, UpRightInput, now)
    /\ UNCHANGED <<sock, listening, players, rooms, gameRooms, timers, now, misuse, calls, ret>>
    /\ Emit(<<>>)

NextPitch ==
    \/ \E x \in timers : PitchTick(x)
    \/ PitchTurn

SpecPitch == InitPitch /\ [][NextPitch]_vars

\* a teamed player whose last input is 5000 ms old or older at time t
Idle(o, t) == heap[o].team # "none" /\ t - heap[o].lastSeen >= 5000
\* the other teamed players of the room of player o
Others(o) == {q \in MapObjs(TheRoom.players) : q # o /\ heap[q].team # "none"}
\* the distances at which a player touches the ball and another player
TouchBall == (PlayerRadius + BallRadius) * Scale
TouchPlayer == 2 * PlayerRadius * Scale
Apart(a, b, d) == ~Closer(a, b, d)
\* player p is further from the ball and from the other players than
\* touching, and `slack` more
ClearOf(p, ball, others, slack) ==
    /\ Apart(p, ball, TouchBall + slack)
    /\ \A q \in others : Apart(p, q, TouchPlayer + slack)
\* a hundredth of a field unit
Hundredth == Scale \div 100

\* C26: in a tick without a goal, a teamed player whose last input is
\* 5000 ms old or older (1) is exactly as before the tick, whatever its
\* velocity and its keys, when the tick leaves it more than a unit clear of
\* the ball and of every other teamed player; (2) is pushed off the ball
\* that the tick brings upon it: it overlaps the ball by no more than a
\* hundredth of a unit after a tick that leaves the other players more than
\* a unit clear of the two; (3) is pushed off another teamed player
\* likewise, after a tick that leaves the ball more than a unit clear of
\* the two.
IdleFrozenButCollidable ==
    [][\A x \in timers :
         (PitchTick(x) /\ TheRoom'.score = TheRoom.score)
         => \A o \in MapObjs(TheRoom.players) :
              Idle(o, x.due)
              => /\ ClearOf(heap'[o], TheRoom'.ball, {heap'[q] : q \in Others(o)}, Scale)
                    => heap'[o] = heap[o]
                 /\ (\A q \in Others(o) :
                        ClearOf(heap'[q], TheRoom'.ball, {heap'[o]}, Scale))
                    => Apart(heap'[o], TheRoom'.ball, TouchBall - Hundredth)
                 /\ \A q \in Others(o) :
                        (/\ Apart(heap'[o], TheRoom'.ball, TouchBall + Scale)
                         /\ Apart(heap'[q], TheRoom'.ball, TouchBall + Scale))
                        => Apart(heap'[o], heap'[q], TouchPlayer - Hundredth)]_vars

\* C26, reached: a player on a team whose last input is 5000 ms old or older
\* has a velocity, from the ball or from its last run, and stands more than
\* a unit clear of the ball and of the other players.
IdlePlayerPushedAndLeft ==
    \E o \in MapObjs(TheRoom.players) :
        /\ Idle(o, now)
        /\ TheRoom.gameTime > 0
        /\ heap[o].vx # 0
        /\ heap[o].x \notin {100 * Scale, 700 * Scale}
        /\ ClearOf(heap[o], TheRoom.ball, {heap[q] : q \in Others(o)}, Scale)

\* where a player is, how it moves, its team and its score
Standing(p) == [x |-> p.x, y |-> p.y, vx |-> p.vx, vy |-> p.vy,
                team |-> p.team, score |-> p.score]

\* C27: a tick leaves the position, the velocity, the team and the score of
\* every player without a team as they were, with or without a goal in the
\* tick, with or without the ball or a player upon it.
TickLeavesSpectators ==
    [][\A x \in timers :
         PitchTick(x)
         => \A o \in MapObjs(TheRoom.players) :
              heap[o].team = "none" => Standing(heap'[o]) = Standing(heap[o])]_vars

\* C27, reached: ticks have passed, the spectator holds its keys, and the
\* ball lies upon it.
BallUponSpectator ==
    /\ TheRoom.gameTime > 0
    /\ heap[<<3, 1>>].team = "none"
    /\ heap[<<3, 1>>].input = DownInput
    /\ Closer(heap[<<3, 1>>], TheRoom.ball, TouchBall)
    /\ Standing(heap[<<3, 1>>]) = [x |-> 400 * Scale, y |-> 50 * Scale, vx |-> 0, vy |-> 0,
                                   team |-> "none", score |-> 0]

\* what a player last sent and when
Intent(p) == [input |-> p.input, lastSeen |-> p.lastSeen]

\* C28: a tick leaves the input flags and the time of the last input of
\* every player as they were; they change only in a step that hands an input
\* of that player to the room, and only for that player.
TickOnlyReadsIntent ==
    [][/\ \A x \in timers :
            PitchTick(x) => \A o \in DOMAIN heap : Intent(heap'[o]) = Intent(heap[o])
       /\ \A o \in DOMAIN heap :
            Intent(heap'[o]) # Intent(heap[o]) => (PitchTurn /\ o = <<1, 1>>)]_vars

\* C28, reached: the host has turned, ticks have passed since, and the host
\* still holds the keys of its turn, sent when it turned; it has moved up.
HostKeepsTurnKeys ==
    /\ nInputs = 1
    /\ TheHost.input = UpRightInput
    /\ TheHost.lastSeen < now
    /\ TheHost.y < 150 * Scale
    /\ heap[<<2, 1>>].input = LeftInput
    /\ heap[<<2, 1>>].x < 650 * Scale

\* ------------------------------------------------------------- the bout
\* A room of two, the host on red and the second player on blue, with its
\* loop started.  The room is handed the inputs of BoutScript one after the
\* other, at any time between the ticks: an input of each player, a second
\* one that replaces the first, one for an id the room does not hold, and
\* one that is no object.  The timer fires on time, BoutTicks times.
BoutTicks == 6     \* ticks of the bout
UpInput == [NoInput EXCEPT !.up = TRUE]
Absent == NPlayers
BoutScript ==
    <<[id |-> 1, data |-> RightInput],
      [id |-> 2, data |-> LeftInput],
      [id |-> 1, data |-> DownInput],
      [id |-> Absent, data |-> UpInput],
      [id |-> 2, data |-> UpRightInput],
      [id |-> 1, data |-> Malformed]>>

InitBout ==
    LET h0 == [o \in {<<p, 1>> : p \in Hands} |-> NewPlayer(o[1], 0)]
        g1 == AddPlayer(EmptyRoom(Code(0), 0), h0, <<1, 1>>)
        g2 == AddPlayer(g1.r, g1.h, <<2, 1>>)
        st == StartGameLoop(g2.r, 1, {}, 0)
    IN  /\ sock = [s \in Sockets |-> "new"]
        /\ listening = FALSE
        /\ players = [p \in Hands |-> <<p, 1>>]
        /\ rooms = MapPut(<<>>, Code(0), 1)
        /\ gameRooms = MapPut(<<>>, 1, st.r)
        /\ heap = g2.h
        /\ timers = st.timers
        /\ now = 0
        /\ misuse = 0
        /\ nInputs = 0
        /\ calls = 0
        /\ ret = NoRet
        /\ emitted = Tap(FALSE)
        /\ client = NoGame

\* room.updatePlayerInput(id, data): the next input of the script
BoutInput ==
    /\ nInputs < Len(BoutScript)
    /\ nInputs' = nInputs + 1
    /\ heap' = UpdatePlayerInput(TheRoom, heap, BoutScript[nInputs + 1].id,
                                 BoutScript[nInputs + 1].data, now)
    /\ UNCHANGED <<sock, listening, players, rooms, gameRooms, timers, now, misuse, calls, ret>>
    /\ Emit(<<>>)

BoutTick(x) ==
    /\ x \in timers
    /\ now < x.due
    /\ TheRoom.gameTime < BoutTicks * TickMs
    /\ now' = x.due
    /\ Fire(x, x.due)
    /\ UNCHANGED <<sock, listening, misuse, nInputs, calls, ret>>

NextBout ==
    \/ BoutInput
    \/ \E x \in timers : BoutTick(x)

SpecBout == InitBout /\ [][NextBout]_vars

\* the flags that a payload carries: none when it is no object
Flags(data) ==
    [isObject |-> TRUE,
     up |-> data.isObject /\ data.up, down |-> data.isObject /\ data.down,
     left |-> data.isObject /\ data.left, right |-> data.isObject /\ data.right]
RECURSIVE Latest(_, _)
\* the flags of the latest of the first n inputs of the script that is for
\* player p; the flags a player is constructed with when there is none
Latest(p, n) ==
    IF n = 0 THEN NoInput
    ELSE IF BoutScript[n].id = p THEN Flags(BoutScript[n].data)
    ELSE Latest(p, n - 1)
\* where a body is and how it moves
Motion(p) == [x |-> p.x, y |-> p.y, vx |-> p.vx, vy |-> p.vy]

\* C29: however the inputs and the ticks of a room interleave, each tick
\* moves every active player on a team as updatePlayer moves it under the
\* flags of the latest input for that player that the room was handed
\* before the tick; an input changes nothing of any other player, and
\* nothing at all when the room does not hold its id.
TickUsesLatestInput ==
    [][/\ \A x \in timers :
            BoutTick(x)
            => \A p \in Members :
                 \A o \in {players[p]} :
                   (heap[o].team # "none" /\ x.due - heap[o].lastSeen < 5000)
                   => Motion(heap'[o])
                        = Motion(UpdatePlayer(heap[o], Latest(p, nInputs),
                                              x.due - TheRoom.lastUpdate))
       /\ BoutInput
            => \A p \in Hands :
                 p # BoutScript[nInputs + 1].id \/ p \notin Members
                 => heap'[players[p]] = heap[players[p]]]_vars

\* C29, reached: all the inputs were handed in; after the last of them a
\* tick found the host with no key held and the second player running up
\* and right.
BoutPlayedOut ==
    /\ nInputs = Len(BoutScript)
    /\ TheRoom.gameTime = BoutTicks * TickMs
    /\ TheHost.lastSeen < now
    /\ TheHost.input = NoInput
    /\ TheHost.vx > 0 /\ TheHost.vy > 0
    /\ heap[<<2, 1>>].input = UpRightInput
    /\ heap[<<2, 1>>].vx < 0 /\ heap[<<2, 1>>].vy < 0
    /\ heap[<<Absent, 1>>] = NewPlayer(Absent, 0)

\* the normal is held to a thousandth on each axis: what that comes to over
\* the widest overlap there is
NormalLeeway == (2 * TouchPlayer) \div Scale
\* bodies a and b, closer than d, are a2 and b2 after the call: each has
\* moved by half the overlap, the one against the other, and the two are d
\* apart, all to the leeway of the normal
PushedApart(a, b, a2, b2, d) ==
    LET half == Div(d - Distance(a, b), 2)
    IN  /\ a2.x - a.x = -(b2.x - b.x)
        /\ a2.y - a.y = -(b2.y - b.y)
        /\ Abs(Distance(a, a2) - half) <= NormalLeeway
        /\ Abs(Distance(b, b2) - half) <= NormalLeeway
        /\ Abs(Distance(a2, b2) - d) <= NormalLeeway
        /\ Apart(a2, b2, d - NormalLeeway)

\* C30: resolveCollision on two bodies whose centres are closer than the
\* sum of their radii, the same centre included, moves each by half the
\* overlap, the one against the other, and leaves the centres the sum of
\* the radii apart, so that checkCollision on the two is false (all to the
\* leeway of the normal).
CollisionPushesApart ==
    [][\A inv1, inv2 \in InverseMasses :
         /\ BumpPlayerBall(inv1, inv2)
            => PushedApart(TheHost, TheRoom.ball, TheHost', TheRoom.ball', TouchBall)
         /\ BumpBallPlayer(inv1, inv2)
            => PushedApart(TheRoom.ball, TheHost, TheRoom.ball', TheHost', TouchBall)]_vars

\* ----------------------------------------- constrainToBounds on its own
\* physics.constrainToBounds called on the room's ball, radius 10, and on
\* the host, radius 15, a few times over.  Both bodies start from one drawn
\* place and velocity: inside the field, on and past each edge for either
\* radius, at both ends of the goal span, within and beyond the depth of
\* either goal, and in the corners.
FenceCalls == 3      \* calls of constrainToBounds

FenceXs ==
    {-30000, -10001, -10000, -5001, -5000, 0, 9999, 10000, 14999, 15000, 400000,
     785000, 785001, 790000, 790001, 800000, 805000, 805001, 810000, 810001, 830000}
FenceYs ==
    {-5000, 9999, 10000, 14999, 15000, 159999, 160000, 200000, 240000, 240001,
     385000, 385001, 390000, 390001, 420000}
FenceVs == {<<0, 0>>, <<-3000, 4000>>, <<4999, -13>>, <<-1, -5001>>, <<1234, 4321>>}

InitFence ==
    \E x \in FenceXs, y \in FenceYs, v \in FenceVs :
        LET h0 == [o \in {<<p, 1>> : p \in Hands} |-> NewPlayer(o[1], 0)]
            g  == AddPlayer(EmptyRoom(Code(0), 0), h0, <<1, 1>>)
        IN  /\ sock = [s \in Sockets |-> "new"]
            /\ listening = FALSE
            /\ players = [p \in Hands |-> <<p, 1>>]
            /\ rooms = MapPut(<<>>, Code(0), 1)
            /\ gameRooms = MapPut(<<>>, 1,
                   [g.r EXCEPT !.ball = [x |-> x, y |-> y, vx |-> v[1], vy |-> v[2]]])
            /\ heap = [g.h EXCEPT ![<<1, 1>>].x = x, ![<<1, 1>>].y = y,
                                  ![<<1, 1>>].vx = v[1], ![<<1, 1>>].vy = v[2]]
            /\ timers = {}
            /\ now = 0
            /\ misuse = 0
            /\ nInputs = 0
            /\ calls = 0
            /\ ret = NoRet
            /\ emitted = Tap(FALSE)
            /\ client = NoGame

\* physics.constrainToBounds(ball, 10)
FenceBall ==
    /\ calls < FenceCalls
    /\ gameRooms' = [gameRooms EXCEPT
                       ![1].ball = ConstrainToBounds(@, BallRadius * Scale)]
    /\ calls' = calls + 1
    /\ ret' = [op |-> "constrainToBounds", id |-> 0, arg |-> "ball", ret |-> FALSE]
    /\ UNCHANGED <<sock, listening, players, rooms, heap, timers, now, misuse, nInputs>>
    /\ Emit(<<>>)

\* physics.constrainToBounds(host, 15)
FencePlayer ==
    /\ calls < FenceCalls
    /\ heap' = [heap EXCEPT ![<<1, 1>>] = ConstrainToBounds(@, PlayerRadius * Scale)]
    /\ calls' = calls + 1
    /\ ret' = [op |-> "constrainToBounds", id |-> 1, arg |-> "player", ret |-> FALSE]
    /\ UNCHANGED <<sock, listening, players, rooms, gameRooms, timers, now, misuse, nInputs>>
    /\ Emit(<<>>)

NextFence == FenceBall \/ FencePlayer

SpecFence == InitFence /\ [][NextFence]_vars

\* C31: constrainToBounds on a body that the call before has constrained,
\* of radius 10 or 15 and wherever it was first, changes neither its place
\* nor its velocity.
ConstrainIsIdempotent ==
    [][/\ (FenceBall /\ ret.arg = "ball") => TheRoom.ball' = TheRoom.ball
       /\ (FencePlayer /\ ret.arg = "player") => TheHost' = TheHost]_vars

\* C31, reached: the ball, first past the top left corner and flying up
\* and left, was put back and turned round by the first call, and the
\* second call has run on it.
CornerBallConstrainedTwice ==
    /\ calls = 2
    /\ ret.arg = "ball"
    /\ TheHost.x = -30000 /\ TheHost.y = -5000
    /\ TheHost.vx = -1 /\ TheHost.vy = -5001
    /\ TheRoom.ball.x = BallRadius * Scale /\ TheRoom.ball.y = BallRadius * Scale
    /\ TheRoom.ball.vx = 0 /\ TheRoom.ball.vy = 4000

\* v2 is 0.8 times the magnitude of v, to the arithmetic's unit
Damped(v, v2) == 8 * Abs(v) - 10 < 10 * v2 /\ 10 * v2 <= 8 * Abs(v)

\* body e is e2 after constrainToBounds(e, radius)
Fenced(e, e2, radius) ==
    /\ radius <= e2.y /\ e2.y <= FieldHeight * Scale - radius
    /\ IF e.y >= 160 * Scale /\ e.y <= 240 * Scale
       THEN -20 * Scale + radius <= e2.x /\ e2.x <= 820 * Scale - radius
       ELSE radius <= e2.x /\ e2.x <= FieldWidth * Scale - radius
    /\ e2.x > e.x => Damped(e.vx, e2.vx)
    /\ e2.x < e.x => Damped(e.vx, -e2.vx)
    /\ e2.y > e.y => Damped(e.vy, e2.vy)
    /\ e2.y < e.y => Damped(e.vy, -e2.vy)

\* C32: after constrainToBounds the body is within the top and bottom
\* edges by its radius; it is within the left and right edges by its
\* radius when it came with its centre off the goal span, and within the
\* backs of the goals by its radius when it came with its centre on the
\* span; on each axis on which the call moved it, its velocity points back
\* into the field at 0.8 times the magnitude it had.
ConstrainedIsInside ==
    [][/\ FenceBall => Fenced(TheRoom.ball, TheRoom.ball', BallRadius * Scale)
       /\ FencePlayer => Fenced(TheHost, TheHost', PlayerRadius * Scale)]_vars

\* C32, reached: the host, first beyond the back of the right goal, on the
\* span and running right and down, was put against the back of the goal
\* and turned left by its first call, keeping its speed down the pitch.
HostOffBackOfGoal ==
    /\ calls = 1
    /\ ret.arg = "player"
    /\ TheRoom.ball.x = 830000 /\ TheRoom.ball.y = 240000
    /\ TheRoom.ball.vx = 1234 /\ TheRoom.ball.vy = 4321
    /\ TheHost.x = 805000 /\ TheHost.y = 240000
    /\ TheHost.vx = -987 /\ TheHost.vy = 4321

\* C33: a tick adds to the room's gameTime the time on the wall clock since
\* the timer last fired or, when it has not fired yet, since the
\* startGameLoop that set it; nothing else changes gameTime, which so never
\* falls and counts no time that the room spent stopped.
GameTimeIsRunTime ==
    [][/\ \A x \in timers :
            Tick(x) => TheRoom'.gameTime = TheRoom.gameTime + (now - (x.due - TickMs))
       /\ (\A x \in timers : ~Tick(x)) => TheRoom'.gameTime = TheRoom.gameTime
       /\ TheRoom'.gameTime >= TheRoom.gameTime]_vars

\* C33, reached: the room was started after it had been stopped; four
\* intervals after its construction two ticks have run, the second just
\* now, and gameTime is two intervals.
TwoTicksInFourIntervals ==
    /\ ret.op = "startGameLoop"
    /\ ret.arg = "stopped"
    /\ now = 4 * TickMs
    /\ TheRoom.lastUpdate = now
    /\ TheRoom.gameTime = 2 * TickMs
    /\ LoopState = "running"

\* the room's counter of a team
TeamCount(r, team) == IF team = "red" THEN r.redTeamCount ELSE r.blueTeamCount
\* 1 when the player is on the team, else 0
OneIfOn(o, team) == IF heap[o].team = team THEN 1 ELSE 0

\* C34: switchPlayerTeam of a member to red or blue, when the counter of
\* that team without the member is under the cap, returns true, makes the
\* target the player's team, takes one off the counter of the team the
\* player was on and adds one to the target's (both the same counter when
\* the player was on the target), puts the player on the target's kickoff
\* spot at rest, and changes no other player and not the roster.
SwitchMovesOnePlayer ==
    [][\A p \in Members, team \in {"red", "blue"} :
         \A o \in {players[p]} :
           (/\ RoomSwitchPlayerTeam(p, team)
            /\ TeamCount(TheRoom, team) - OneIfOn(o, team) < MaxTeamSize)
           => /\ ret'.ret = TRUE
              /\ heap'[o].team = team
              /\ \A t \in {"red", "blue"} :
                    TeamCount(TheRoom', t) =
                       TeamCount(TheRoom, t) - OneIfOn(o, t) + (IF t = team THEN 1 ELSE 0)
              /\ heap'[o].x = (IF team = "red" THEN 100 ELSE 700) * Scale
              /\ heap'[o].y = 200 * Scale
              /\ heap'[o].vx = 0 /\ heap'[o].vy = 0
              /\ \A q \in DOMAIN heap : q # o => heap'[q] = heap[q]
              /\ TheRoom'.players = TheRoom.players]_vars

\* C34, reached: the host, alone in its room and on red since the room was
\* made, has switched to blue and stands on the blue kickoff spot.
HostCrossedToBlue ==
    /\ ret = [op |-> "switchPlayerTeam", id |-> 1, arg |-> "blue", ret |-> TRUE]
    /\ Members = {1}
    /\ TheHost.team = "blue"
    /\ TheHost.x = 700 * Scale /\ TheHost.y = 200 * Scale
    /\ TheHost.vx = 0 /\ TheHost.vy = 0
    /\ TheRoom.redTeamCount = 0 /\ TheRoom.blueTeamCount = 1

\* ------------------------------------------ a lobby that comes and goes
\* The crowded lobby with leaves and disconnects: the first socket creates
\* the rooms, the others join one after the other, everybody switches
\* teams; those in a room leave it last in, first out, and the sockets
\* disconnect from the last one down.
GateLeaveRoom(s) ==
    /\ \A q \in Crowd : q > s => ~InARoom(q)
    /\ HandleLeaveRoom(s)

GateDisconnect(s) ==
    /\ \A q \in Crowd : q > s => sock[q] = "closed"
    /\ HandleDisconnect(s)

NextGate ==
    \/ \E code \in Codes : CrowdCreateRoom(code)
    \/ \E s \in Crowd, code \in Codes : CrowdJoinRoom(s, code)
    \/ \E s \in Crowd, team \in Targets : CrowdSwitchTeam(s, team)
    \/ \E s \in Crowd : GateLeaveRoom(s)
    \/ \E s \in Crowd : GateDisconnect(s)

SpecGate == InitCrowd /\ [][NextGate]_vars

\* C35: the redTeamCount and the blueTeamCount of every room are whole
\* numbers from 0 to the team cap of 4.
CountersWithinCap ==
    \A sl \in DOMAIN gameRooms :
        /\ gameRooms[sl].redTeamCount \in 0..MaxTeamSize
        /\ gameRooms[sl].blueTeamCount \in 0..MaxTeamSize

\* C35, reached: a room of five with four players on red and the fifth,
\* whom the room had put on a team when it joined, among the spectators;
\* the counters are 4 and 0.
FullRedOneSpectator ==
    \E sl \in RoomSlots :
        /\ Len(gameRooms[sl].players) = NCrowd
        /\ Cardinality(Roster(sl, "red")) = MaxTeamSize
        /\ Cardinality(Roster(sl, "none")) = 1
        /\ gameRooms[sl].redTeamCount = MaxTeamSize
        /\ gameRooms[sl].blueTeamCount = 0

\* C36: at the end of every tick checkGoal finds no goal on the ball as the
\* tick leaves it, and the goal check of the tick that follows a tick that
\* found a goal finds none: one crossing of a goal line is counted by one
\* tick.
NoGoalLeftStanding ==
    [][\A x \in timers :
         MatchTick(x)
         => /\ CheckGoal(TheRoom'.ball) = "none"
            /\ GoalFound(x) # "none" => \A y \in timers' : GoalFound(y)' = "none"]_vars

\* C36, reached: the host alone has scored, and the ticks since, up to the
\* last of the match, have left it at 1:0 with the ball on the centre spot.
OneGoalAtFullTime ==
    /\ Members = {1}
    /\ TheRoom.score = [red |-> 1, blue |-> 0]
    /\ TheRoom.gameTime = MaxTicks * TickMs
    /\ TheRoom.lastUpdate = now
    /\ CheckGoal(TheRoom.ball) = "none"

\* C37: a room's isPlaying is true exactly when its gameLoopInterval is
\* set, and the handle it holds then is that of a live timer of the room.
PlayingIffScheduled ==
    \A sl \in DOMAIN gameRooms :
        /\ gameRooms[sl].isPlaying <=> gameRooms[sl].gameLoopInterval # NoTimer
        /\ gameRooms[sl].isPlaying
              <=> \E x \in timers : x.id = gameRooms[sl].gameLoopInterval /\ x.room = sl

\* C37, reached: the server was shut down while a room with a player in
\* it was registered; the room is still there, not playing and with no
\* timer.
RoomLeftStoppedByShutdown ==
    /\ ~listening
    /\ timers = {}
    /\ \E sl \in RoomSlots :
          /\ Len(gameRooms[sl].players) > 0
          /\ ~gameRooms[sl].isPlaying
          /\ gameRooms[sl].gameLoopInterval = NoTimer
          /\ gameRooms[sl].gameTime > 0

\* ------------------------------------------------- the page in a browser
\* new Game() on DOMContentLoaded, with its NetworkManager, the WebSockets
\* the manager makes and the timeouts it sets.  The listeners of every
\* WebSocket call into the one NetworkManager.  A WebSocket opens or
\* fails; one that fails fires error and then close, one that is open
\* closes, with or without an error before.  The server never answers in
\* the events of a room, and nothing calls Game.destroy.
\*   network:  the class of Game.network
\*   sockets:  the WebSockets made, by readyState; "failed" is closed with
\*             the close event still to come
\*   socket:   NetworkManager.socket, an index into sockets
\*   reconnects:     the timeouts of attemptReconnect that are pending
\*   offlineStarts:  the timeouts of OfflineNetworkManager.connect that are pending
\*   status:   the class of the connection-status element
UpdateConnectionStatus(c, status) == [c EXCEPT !.status = status]

\* NetworkManager.connect(): new WebSocket(serverUrl), setupEventListeners()
NetworkConnect(c) ==
    [c EXCEPT !.sockets = Append(@, "connecting"), !.socket = Len(c.sockets) + 1]

\* Game.switchToOfflineMode(), with OfflineNetworkManager.connect()
SwitchToOfflineMode(c) ==
    [c EXCEPT !.isOffline = TRUE, !.network = "OfflineNetworkManager",
              !.offlineStarts = @ + 1]

\* attemptReconnect that gives up one close later
AttemptReconnectOneMore(c) ==
    IF c.reconnectAttempts > MaxReconnectAttempts THEN c
    ELSE [c EXCEPT !.reconnectAttempts = @ + 1, !.reconnects = @ + 1]

AttemptReconnect(c) ==
    IF c.reconnectAttempts >= MaxReconnectAttempts THEN c
    ELSE [c EXCEPT !.reconnectAttempts = @ + 1, !.reconnects = @ + 1]

HandleConnectionError(c) ==
    UpdateConnectionStatus([c EXCEPT !.connected = FALSE], "disconnected")

\* new Game(): init() runs setupNetwork(), which connects
NewGame ==
    NetworkConnect([loaded |-> TRUE, network |-> "NetworkManager", isOffline |-> FALSE,
                    connected |-> FALSE, reconnectAttempts |-> 0,
                    sockets |-> <<>>, socket |-> 0,
                    reconnects |-> 0, offlineStarts |-> 0, status |-> "none"])

InitClient ==
    /\ sock = [s \in Sockets |-> "new"]
    /\ listening = TRUE
    /\ players = [s \in Sockets |-> NoObj]
    /\ rooms = <<>>
    /\ gameRooms = <<>>
    /\ heap = <<>>
    /\ timers = {}
    /\ now = 0
    /\ misuse = 0
    /\ nInputs = 0
    /\ calls = 0
    /\ ret = NoRet
    /\ emitted = Tap(FALSE)
    /\ client = NewGame

\* socket.onopen of WebSocket k, and Game's onConnect
SocketOpen(k) ==
    /\ client.sockets[k] = "connecting"
    /\ client' = [UpdateConnectionStatus(client, "connected") EXCEPT
                    !.sockets[k] = "open", !.connected = TRUE,
                    !.reconnectAttempts = 0, !.isOffline = FALSE]
    /\ UNCHANGED serverVars

\* socket.onerror of WebSocket k, and Game's onError
SocketError(k) ==
    /\ client.sockets[k] \in {"connecting", "open"}
    /\ client' = [HandleConnectionError(client) EXCEPT !.sockets[k] = "failed"]
    /\ UNCHANGED serverVars

\* socket.onclose of WebSocket k, Game's onDisconnect, attemptReconnect()
SocketClose(k) ==
    /\ client.sockets[k] \in {"open", "failed"}
    /\ \E c1 \in {UpdateConnectionStatus([client EXCEPT !.sockets[k] = "closed",
                                                        !.connected = FALSE],
                                         "disconnected")} :
       \E c2 \in {SwitchToOfflineMode(c1)} :
           client' = AttemptReconnect(c2)
    /\ UNCHANGED serverVars

\* the timeout of attemptReconnect: connect()
ReconnectTimeout ==
    /\ client.reconnects > 0
    /\ Len(client.sockets) < MaxSockets
    /\ client' = NetworkConnect([client EXCEPT !.reconnects = @ - 1])
    /\ UNCHANGED serverVars

\* the timeout of OfflineNetworkManager.connect(); its onConnect is not set
OfflineStart ==
    /\ client.offlineStarts > 0
    /\ client' = UpdateConnectionStatus([client EXCEPT !.offlineStarts = @ - 1],
                                        "connected")
    /\ UNCHANGED serverVars

NextClient ==
    \/ \E k \in DOMAIN client.sockets : SocketOpen(k)
    \/ \E k \in DOMAIN client.sockets : SocketError(k)
    \/ \E k \in DOMAIN client.sockets : SocketClose(k)
    \/ ReconnectTimeout
    \/ OfflineStart

SpecClient == InitClient /\ [][NextClient]_vars

\* C38: reconnectAttempts is never above maxReconnectAttempts; a close
\* sets one timeout to reconnect and adds one to the counter when the
\* counter is below 5, and sets none at 5, the count of the closes since
\* the last open; every open makes the counter 0.
ReconnectsAreCapped ==
    /\ [](client.reconnectAttempts \in 0..MaxReconnectAttempts)
    /\ [][\A k \in DOMAIN client.sockets :
            /\ SocketClose(k)
               => IF client.reconnectAttempts < 5
                  THEN /\ client'.reconnects = client.reconnects + 1
                       /\ client'.reconnectAttempts = client.reconnectAttempts + 1
                  ELSE /\ client'.reconnects = client.reconnects
                       /\ client'.reconnectAttempts = client.reconnectAttempts
            /\ SocketOpen(k) => client'.reconnectAttempts = 0]_vars

\* C38, reached: six WebSockets in a row have failed and are closed; the
\* counter is 5 and no timeout to reconnect is left.
GaveUpAfterFive ==
    /\ Len(client.sockets) = 6
    /\ \A k \in DOMAIN client.sockets : client.sockets[k] = "closed"
    /\ client.reconnectAttempts = 5
    /\ client.reconnects = 0
    /\ ~client.connected

\* C39: Game.isOffline is true exactly when Game.network is the
\* OfflineNetworkManager.
OfflineFlagTellsNetwork ==
    client.isOffline <=> client.network = "OfflineNetworkManager"

====
